---- MODULE Spec2Model ----
(***************************************************************************)
(* Reverse-tunnel relay: Connector, Tunnel and ConnectorPool of            *)
(* handler/tunnel/tunnel.go.                                               *)
(*                                                                         *)
(* Spec        the pool as the handler uses it: ConnectorPool.Add/Get/     *)
(*             Close called by concurrent handler goroutines, the pool's   *)
(*             idle sweeper, each tunnel's reaper, each connector's        *)
(*             accept-drain loop, and sessions dying.                      *)
(* SpecTunnel  one Tunnel built with NewTunnel and driven through its      *)
(*             exported methods (AddConnector, GetConnector, Close,        *)
(*             CloseOnIdle) together with its reaper.                      *)
(***************************************************************************)
EXTENDS Integers, Sequences, FiniteSets, TLC

\* ---------------------------------------------------------------- bounds
NumConns == 3       \* connector objects that NewConnector can build
NumBinds == 2       \* BIND requests served, each registering one new connector
MaxList == 3        \* longest connector list a tunnel is driven to
NumTids == 2        \* distinct tunnel IDs
MaxTunnels == 2     \* Tunnel objects that NewTunnel can build
NumProcs == 2       \* goroutines calling into the pool / tunnel concurrently
MaxDereg == 2       \* most SD Deregister calls counted per connector id
NumServed == 1      \* BIND requests a handler under test serves to registration
Backlog == 2        \* md.backlog: capacity of a listener's connection queue
NumStreams == 4     \* connections / streams a listener under test is offered
MaxDrained == 2     \* streams the peer of a relay BIND session opens
NumCalls == 2       \* Handle calls running concurrently
NumTasks == 3       \* goroutines taking the pool and tunnel locks
MaxStarted == 3     \* Handle calls made on the handler whose calls are followed step by step

\* ------------------------------------------------------------- constants
MaxWeight == 255

Nil == 0
Conns == 1..NumConns
PoolConns == 1..NumBinds
HandlerConns == 1..NumServed
LConns == 1..NumStreams
ListenerKinds == {"tcp", "mtcp", "sshd", "h2"}
Tids == 1..NumTids
TunnelObjs == 1..MaxTunnels
Procs == 1..NumProcs
Networks == {"tcp", "udp"}
Weights == {0, 1, MaxWeight}       \* weights given to connectors of the lone tunnel
PoolWeights == {1}                 \* weights given to connectors added to the pool

\* relay protocol values the tunnel handler compares against
Version1 == 1
CmdConnect == 1
CmdBind == 2
CmdMask == 15
CmdOther == CmdBind + 1          \* a command that is neither CONNECT nor BIND
FlagBit == CmdMask + 1           \* a flag bit of the command byte outside CmdMask

Versions == {Version1, Version1 + 1}
Cmds == {CmdConnect, CmdBind, CmdOther,
         CmdConnect + FlagBit, CmdBind + FlagBit, CmdOther + FlagBit}
Users == {"good", "bad"}
HandlerKinds == {"tunnel", "socks4", "socks5", "http2"}

VARIABLES
    connectors,  \* [Conns -> [created, udp, weight, tid]]  Connector.id, Connector.tid
    session,     \* [Conns -> "none" | "open" | "closed"]  Connector.s (mux session)
    acceptPC,    \* [Conns -> "none" | "run" | "done"]  position of Connector.accept
    tunnels,     \* [TunnelObjs -> [alloc, id, connectors, closed]]  Tunnel objects
    cleanPC,     \* [TunnelObjs -> "none" | "run" | "done"]  position of Tunnel.clean
    registered,  \* connectors that a BIND has handed to ConnectorPool.Add
    diedInPool,  \* connectors whose transport went away while a pool tunnel listed them
    pool,        \* [Tids -> TunnelObjs \cup {Nil}]  ConnectorPool.tunnels
    pmu,         \* holder of ConnectorPool.mu (write), Nil when free
    pc,          \* [Procs -> [op, tid, c, t]]  position of each calling goroutine
    sd,          \* TRUE iff a service-discovery backend is configured
    sdDereg,     \* [Conns -> Nat]  SD Deregister calls received, per connector id
    panicked,    \* TRUE once a goroutine closed an already closed channel
    last,        \* the step just taken and what it returned
    hopts,       \* handler.Options and metadata of the handler under test
    hwait,       \* connectors whose BIND Handle call has not returned yet
    hret,        \* the Handle call that has just returned and what it did
    listener,    \* [kind, h2c, state, stack]  the listener under test
    cqueue,      \* listener.cqueue: the connections queued for Accept, oldest first
    errChan,     \* listener.errChan: [buf, closed]
    produced,    \* [LConns -> "none" | "queued" | "delivered" | "closed"]
    lret,        \* the listener step just taken and what it returned
    hlife,       \* [observer, init, pool, cancel, closed]  the handler's Observer option and
                 \* what Init and Close left in the handler
    observePC,   \* "none" | "run" | "done"  position of the handler's observeStats
    sweepPC,     \* "none" | "run"  position of ConnectorPool.closeIdles
    lifeRet,     \* the Init, Close or observer step just taken and what it returned
    relay,       \* one relayHandler.handleBind call: its position, what it has opened
                 \* and written, and what it returned
    peerStreams, \* [Conns -> [hand, drained]]  streams the peer opened on a connector's
                 \* session: one in the accept loop's hand, and those it closed
    copts,       \* [bypass, observer, readTimeout, pr]  further options of the handler
    call,        \* [Invs -> [pc, ...]]  the Handle calls in progress, step by step
    gauge,       \* [cur, total, started]  stats.KindCurrentConns, stats.KindTotalConns and
                 \* the number of Handle calls made
    lk           \* [pool, tun, task]  p.mu, every t.mu and the tasks that take them

\* The state of the connector pool and its tunnels.
poolVars == <<connectors, session, acceptPC, registered, diedInPool, tunnels, cleanPC, pool, pmu, pc,
              sd, sdDereg, panicked, last>>

\* The state of a handler's Handle calls.
handlerVars == <<hopts, hwait, hret>>

\* The state of a listener.
listenerVars == <<listener, cqueue, errChan, produced, lret>>

\* The state of a handler's life cycle and of the tasks Init starts.
lifeVars == <<hlife, observePC, sweepPC, lifeRet>>

\* The state of the finer models: drained streams, Handle calls, locks.
auxVars == <<peerStreams, copts, call, gauge, lk>>

\* State outside the pool, which no operation of the pool touches.
rest == <<handlerVars, listenerVars, lifeVars, relay, auxVars>>

vars == <<poolVars, handlerVars, listenerVars, lifeVars, relay, auxVars>>

NoConnector == [created |-> FALSE, udp |-> FALSE, weight |-> 0, tid |-> Nil]
NoTunnel == [alloc |-> FALSE, id |-> Nil, connectors |-> <<>>, closed |-> FALSE]
Idle == [op |-> "idle", tid |-> Nil, c |-> Nil, t |-> Nil]

\* One SD call: kind is "Deregister" or "Renew", id the connector id it carries.
SDCall(kind, c) == [kind |-> kind, id |-> c]

Last(op, t, net, c, res, calls) ==
    [op |-> op, t |-> t, net |-> net, c |-> c, res |-> res, calls |-> calls]

\* What a step that returns nothing of interest leaves in last.
Other == Last("step", Nil, "", Nil, 0, <<>>)

Range(s) == {s[i] : i \in 1..Len(s)}

\* ------------------------------------------------------------ Connector
IsUDP(c) == connectors[c].udp
Weight(c) == connectors[c].weight

\* Connector.IsClosed: a nil connector counts as closed, otherwise the session decides.
IsClosed(c) == IF c = Nil THEN TRUE ELSE session[c] # "open"

\* ------------------------------------------------------- RandomWeighted
\* selector.RandomWeighted: a list of (item, weight), Next draws r in 1..sum
\* and walks the list subtracting weights.
RECURSIVE RWSum(_)
RWSum(rw) == IF rw = <<>> THEN 0 ELSE Head(rw).weight + RWSum(Tail(rw))

RWAdd(rw, item, weight) == Append(rw, [item |-> item, weight |-> weight])

RWReset(rw) == <<>>

RECURSIVE RWPick(_, _)
RWPick(rw, r) ==
    IF Len(rw) = 1 THEN Head(rw).item
    ELSE IF r - Head(rw).weight <= 0 THEN Head(rw).item
    ELSE RWPick(Tail(rw), r - Head(rw).weight)

RWNext(rw) ==
    IF Len(rw) = 0 \/ RWSum(rw) <= 0 THEN {Nil}
    ELSE {RWPick(rw, r) : r \in 1..RWSum(rw)}

\* --------------------------------------------------------------- Tunnel
RawWeight(c) == Weight(c)

\* weight := c.ID().Weight(); if weight == 0 { weight = 1 }
NormWeight(c) == IF Weight(c) = 0 THEN 1 ELSE Weight(c)

NetworkMatchAny(network, c) == TRUE

NetworkMatch(network, c) ==
    (network = "udp" /\ IsUDP(c)) \/ (network # "udp" /\ ~IsUDP(c))

SkipConnector(c) == IsClosed(c)

ResetOnMax(weight, found) == weight = MaxWeight /\ ~found

KeepEveryCandidate(weight, found) == TRUE

KeepCandidate(weight, found) == weight = MaxWeight \/ ~found

\* The selection loop of GetConnector over the list cs, with the selector rw
\* and the flag found as the loop carries them.
RECURSIVE Candidates(_, _, _, _)
Candidates(cs, network, rw, found) ==
    IF cs = <<>> THEN rw
    ELSE
        LET c == Head(cs) IN
        IF SkipConnector(c) THEN Candidates(Tail(cs), network, rw, found)
        ELSE IF NetworkMatch(network, c) THEN
            LET weight == NormWeight(c)
                reset == ResetOnMax(weight, found)
                found1 == found \/ reset
                rw1 == IF reset THEN RWReset(rw) ELSE rw
                rw2 == IF KeepCandidate(weight, found1) THEN RWAdd(rw1, c, weight) ELSE rw1
            IN Candidates(Tail(cs), network, rw2, found1)
        ELSE Candidates(Tail(cs), network, rw, found)

NoFastPath(cs) == FALSE

FastPath(cs) == Len(cs) = 1

\* What Tunnel.GetConnector(network) can return on the list cs.
GetConnectorResults(cs, network) ==
    IF FastPath(cs) THEN {cs[1]}
    ELSE RWNext(Candidates(cs, network, <<>>, FALSE))

\* Goroutines inside CloseOnIdle on tunnel t, holding t.mu for reading.
Readers(t) == {p \in Procs : pc[p].op = "CloseOnIdle" /\ pc[p].t = t}

\* t.mu.Lock() can be taken.
TunnelLockFree(t) == Readers(t) = {}

\* ------------------------------------------------------------------ Init
InitCommon ==
    /\ connectors = [c \in Conns |-> NoConnector]
    /\ session = [c \in Conns |-> "none"]
    /\ acceptPC = [c \in Conns |-> "none"]
    /\ registered = {}
    /\ diedInPool = {}
    /\ pool = [k \in Tids |-> Nil]
    /\ pmu = Nil
    /\ pc = [p \in Procs |-> Idle]
    /\ sdDereg = [c \in Conns |-> 0]
    /\ panicked = FALSE
    /\ last = Last("init", Nil, "", Nil, 0, <<>>)

\* No Handle call has returned.
NoRequest == [version |-> 0, cmd |-> 0, tunnel |-> FALSE, tid |-> Nil, user |-> "", network |-> ""]

NoReturn ==
    [h |-> "none", path |-> "none", req |-> NoRequest, allow |-> TRUE, read |-> FALSE, auth |-> 0,
     resp |-> <<>>, err |-> "nil", closed |-> FALSE, c |-> Nil]

\* No handler is under test.
NoHandler ==
    /\ hopts = [kind |-> "none", auther |-> FALSE, rateLimiter |-> "none"]
    /\ hwait = {}
    /\ hret = NoReturn

\* Nothing has been returned by Accept.
NoAccept == [op |-> "none", conn |-> Nil, err |-> "nil"]

\* No Init, Close or observer step has been taken.
NoLifeRet == [op |-> "none", err |-> "nil", again |-> FALSE, cancelled |-> FALSE]

\* A handler as NewHandler returns it: Init has not run, no task is started.
NoLife ==
    /\ hlife = [observer |-> FALSE, init |-> "new", pool |-> FALSE, cancel |-> "nil",
                closed |-> FALSE]
    /\ observePC = "none"
    /\ sweepPC = "none"
    /\ lifeRet = NoLifeRet

\* No BIND of the relay handler is being served.
NoBind ==
    [pc |-> "idle", enableBind |-> FALSE, network |-> "", ln |-> "none", session |-> "none",
     srv |-> "none", drain |-> "none", drained |-> 0, resp |-> <<>>, err |-> "nil",
     served |-> 0]

NoRelay == relay = NoBind

Invs == 1..NumCalls
Tasks == 1..NumTasks

\* A Handle call that has not started: its position, whether a read deadline is
\* set on conn, whether conn is closed, the upstream conn, the user it was
\* authenticated for, whether the bypass matched, whether it raised the gauge, what it
\* did in order (dispatch, dial, replies, splice) and the error it returned.
NoCall ==
    [pc |-> "idle", deadline |-> FALSE, closed |-> FALSE, cc |-> "none", user |-> "none",
     bypassed |-> FALSE, counted |-> FALSE, ev |-> <<>>, err |-> "nil"]

NoStreams == peerStreams = [c \in Conns |-> [hand |-> FALSE, drained |-> 0]]

NoCalls ==
    /\ copts = [bypass |-> FALSE, observer |-> FALSE, readTimeout |-> FALSE, pr |-> "none"]
    /\ call = [i \in Invs |-> NoCall]
    /\ gauge = [cur |-> 0, total |-> 0, started |-> 0]

\* A lock nobody holds or waits for.
FreeLock == [w |-> Nil, pending |-> Nil, r |-> {}]

\* A task outside any operation.
NoTask == [op |-> "idle", t |-> Nil, at |-> 0]

NoLocks == lk = [pool |-> FreeLock, tun |-> [t \in TunnelObjs |-> FreeLock],
                 task |-> [k \in Tasks |-> NoTask]]

\* None of the finer models is under test.
NoAux == NoStreams /\ NoCalls /\ NoLocks

\* No listener is under test.
NoListener ==
    /\ listener = [kind |-> "none", h2c |-> FALSE, state |-> "new", stack |-> <<>>]
    /\ cqueue = <<>>
    /\ errChan = [buf |-> <<>>, closed |-> FALSE]
    /\ produced = [s \in LConns |-> "none"]
    /\ lret = NoAccept

\* NewConnectorPool: an empty map; no tunnel exists yet.
Init ==
    /\ InitCommon
    /\ NoHandler
    /\ NoListener
    /\ NoLife
    /\ NoRelay
    /\ NoAux
    /\ sd \in BOOLEAN
    /\ tunnels = [t \in TunnelObjs |-> NoTunnel]
    /\ cleanPC = [t \in TunnelObjs |-> "none"]

\* NewTunnel(node, tid, ttl): tunnel object 1 with an empty list and its reaper
\* started; WithSD is not called and the connectors are built without SD.
InitTunnel ==
    /\ InitCommon
    /\ NoHandler
    /\ NoListener
    /\ NoLife
    /\ NoRelay
    /\ NoAux
    /\ sd = FALSE
    /\ tunnels = [t \in TunnelObjs |->
                    IF t = 1 THEN [alloc |-> TRUE, id |-> 1, connectors |-> <<>>, closed |-> FALSE]
                    ELSE NoTunnel]
    /\ cleanPC = [t \in TunnelObjs |-> IF t = 1 THEN "run" ELSE "none"]

\* ------------------------------------------------------------ Connector
\* Connector objects are interchangeable, so they are numbered without loss:
\* in the order they are built (NextFree), or by type and weight (InOrder).
NextFree(c) == \A d \in Conns : d < c => connectors[d].created

Rank(udp, weight) == <<IF udp THEN 1 ELSE 0, weight>>

Before(r1, r2) == r1[1] < r2[1] \/ (r1[1] = r2[1] /\ r1[2] <= r2[2])

InOrder(c, udp, weight) ==
    \A d \in Conns :
        connectors[d].created =>
            /\ d < c => Before(Rank(connectors[d].udp, connectors[d].weight), Rank(udp, weight))
            /\ d > c => Before(Rank(udp, weight), Rank(connectors[d].udp, connectors[d].weight))

\* NewConnector(id, tid, ...): builds connector c around a live session and
\* starts accept().
NewConnector(c, tid, udp, weight) ==
    /\ ~panicked
    /\ ~connectors[c].created
    /\ connectors' = [connectors EXCEPT ![c] = [created |-> TRUE, udp |-> udp, weight |-> weight, tid |-> tid]]
    /\ session' = [session EXCEPT ![c] = "open"]
    /\ acceptPC' = [acceptPC EXCEPT ![c] = "run"]
    /\ last' = Other
    /\ UNCHANGED <<rest, diedInPool, registered, tunnels, cleanPC, pool, pmu, pc, sd, sdDereg,
                   panicked>>

\* Connector.Close: closes the session; closing a closed session changes nothing.
ConnectorClose(c) ==
    /\ ~panicked
    /\ connectors[c].created
    /\ session' = [session EXCEPT ![c] = "closed"]
    /\ last' = Other
    /\ UNCHANGED <<rest, diedInPool, registered, connectors, acceptPC, tunnels, cleanPC, pool,
                   pmu, pc, sd, sdDereg, panicked>>

\* The peer or the transport goes away: the mux session closes itself.
SessionFail(c) ==
    /\ ~panicked
    /\ session[c] = "open"
    /\ session' = [session EXCEPT ![c] = "closed"]
    /\ diedInPool' = IF \E k \in Tids : pool[k] # Nil /\ c \in Range(tunnels[pool[k]].connectors)
                     THEN diedInPool \cup {c} ELSE diedInPool
    /\ last' = Other
    /\ UNCHANGED <<rest, registered, connectors, acceptPC, tunnels, cleanPC, pool, pmu, pc, sd,
                   sdDereg, panicked>>

AcceptRetry(c) ==
    /\ ~panicked
    /\ acceptPC[c] = "run"
    /\ session[c] = "closed"
    /\ ~peerStreams[c].hand
    /\ last' = Last("accept", Nil, "", c, 0, <<>>)
    /\ UNCHANGED <<rest, diedInPool, registered, connectors, session, acceptPC, tunnels, cleanPC,
                   pool, pmu, pc, sd, sdDereg, panicked>>

\* Connector.accept, the error branch: Accept fails once the session is closed;
\* the loop closes the session, deregisters the connector in SD and returns.
AcceptFail(c) ==
    /\ ~panicked
    /\ acceptPC[c] = "run"
    /\ session[c] = "closed"
    /\ ~peerStreams[c].hand
    /\ sd => sdDereg[c] < MaxDereg
    /\ acceptPC' = [acceptPC EXCEPT ![c] = "done"]
    /\ sdDereg' = IF sd THEN [sdDereg EXCEPT ![c] = @ + 1] ELSE sdDereg
    /\ last' = Last("accept", Nil, "", c, 0,
                    IF sd THEN <<SDCall("Deregister", c)>> ELSE <<>>)
    /\ UNCHANGED <<rest, diedInPool, registered, connectors, session, tunnels, cleanPC, pool, pmu,
                   pc, sd, panicked>>

\* What the accept loop's stream steps leave alone.
StreamUnchanged ==
    UNCHANGED <<diedInPool, registered, connectors, session, acceptPC, tunnels, cleanPC, pool,
                pmu, pc, sd, sdDereg, panicked, handlerVars, listenerVars, lifeVars, relay,
                copts, call, gauge, lk>>

\* Connector.accept, c.s.Accept() returning a stream the peer opened.
AcceptStream(c) ==
    /\ ~panicked
    /\ acceptPC[c] = "run"
    /\ session[c] = "open"
    /\ ~peerStreams[c].hand
    /\ peerStreams[c].drained < MaxDrained
    /\ peerStreams' = [peerStreams EXCEPT ![c].hand = TRUE]
    /\ last' = Last("acceptStream", Nil, "", c, 0, <<>>)
    /\ StreamUnchanged

AcceptKeepStream(c) ==
    /\ ~panicked
    /\ peerStreams[c].hand
    /\ peerStreams' = [peerStreams EXCEPT ![c].hand = FALSE]
    /\ last' = Last("closeStream", Nil, "", c, 0, <<>>)
    /\ StreamUnchanged

\* Connector.accept, conn.Close() on the stream just accepted.
AcceptCloseStream(c) ==
    /\ ~panicked
    /\ peerStreams[c].hand
    /\ peerStreams' = [peerStreams EXCEPT ![c].hand = FALSE, ![c].drained = @ + 1]
    /\ last' = Last("closeStream", Nil, "", c, 0, <<>>)
    /\ StreamUnchanged

\* ------------------------------------------------------------ SpecAccept
\* Connectors on their own, each with its accept loop, with SD or without.
InitAccept ==
    /\ InitCommon
    /\ sd \in BOOLEAN
    /\ tunnels = [t \in TunnelObjs |-> NoTunnel]
    /\ cleanPC = [t \in TunnelObjs |-> "none"]
    /\ NoHandler
    /\ NoListener
    /\ NoLife
    /\ NoRelay
    /\ NoAux

NextAccept ==
    \/ \E c \in Conns : NextFree(c) /\ NewConnector(c, 1, FALSE, 1)
    \/ \E c \in Conns : AcceptStream(c)
    \/ \E c \in Conns : AcceptCloseStream(c)
    \/ \E c \in Conns : SessionFail(c)
    \/ \E c \in Conns : ConnectorClose(c)
    \/ \E c \in Conns : AcceptFail(c)

SpecAccept == InitAccept /\ [][NextAccept]_vars

\* --------------------------------------------------------------- Tunnel
\* Tunnel.AddConnector: a nil connector is ignored, any other is appended.
AppendConnector(cs, c) == IF c = Nil THEN cs ELSE Append(cs, c)

AddConnector(t, c) ==
    /\ ~panicked
    /\ tunnels[t].alloc
    /\ c # Nil => connectors[c].created
    /\ Len(tunnels[t].connectors) < MaxList
    /\ TunnelLockFree(t)
    /\ tunnels' = [tunnels EXCEPT ![t].connectors = AppendConnector(@, c)]
    /\ last' = Other
    /\ UNCHANGED <<rest, diedInPool, registered, connectors, session, acceptPC, cleanPC, pool,
                   pmu, pc, sd, sdDereg, panicked>>

\* Tunnel.GetConnector(network): reads the list under the read lock and returns
\* the fast-path connector or the selector's draw.
GetConnector(t, network) ==
    /\ ~panicked
    /\ tunnels[t].alloc
    /\ \E r \in GetConnectorResults(tunnels[t].connectors, network) :
          last' = Last("GetConnector", t, network, r, 0, <<>>)
    /\ UNCHANGED <<rest, diedInPool, registered, connectors, session, acceptPC, tunnels, cleanPC,
                   pool, pmu, pc, sd, sdDereg, panicked>>

ClosedByCloseAlways(t) == Range(tunnels[t].connectors)

\* The connectors Tunnel.Close closes: all of the list on the first close, none afterwards.
ClosedByClose(t) == IF tunnels[t].closed THEN {} ELSE Range(tunnels[t].connectors)

\* The sessions after Tunnel.Close on t.
SessionsAfterClose(t) ==
    [c \in Conns |-> IF c \in ClosedByClose(t) THEN "closed" ELSE session[c]]

\* Tunnel.Close: under the write lock, unless the close channel is already
\* closed, closes every connector of the list and then the channel.
TunnelClose(t) ==
    /\ ~panicked
    /\ tunnels[t].alloc
    /\ TunnelLockFree(t)
    /\ session' = SessionsAfterClose(t)
    /\ tunnels' = [tunnels EXCEPT ![t].closed = TRUE]
    /\ last' = Last("TunnelClose", t, "", Nil, IF tunnels[t].closed THEN 0 ELSE 1, <<>>)
    /\ UNCHANGED <<rest, diedInPool, registered, connectors, acceptPC, cleanPC, pool, pmu, pc, sd,
                   sdDereg, panicked>>

\* The test of Tunnel.CloseOnIdle: channel still open and list empty.
IdleCheck(t) == ~tunnels[t].closed /\ Len(tunnels[t].connectors) = 0

\* Tunnel.CloseOnIdle, first half: takes the read lock and runs the test. When the
\* test fails it returns false at once; otherwise the goroutine is about to
\* close the channel, still holding the read lock.
CloseOnIdleEnter(p, t) ==
    /\ ~panicked
    /\ pc[p].op = "idle"
    /\ tunnels[t].alloc
    /\ IF IdleCheck(t)
       THEN /\ pc' = [pc EXCEPT ![p] = [op |-> "CloseOnIdle", tid |-> Nil, c |-> Nil, t |-> t]]
            /\ last' = Other
       ELSE /\ pc' = pc
            /\ last' = Last("CloseOnIdle", t, "", Nil, 0, <<>>)
    /\ UNCHANGED <<rest, diedInPool, registered, connectors, session, acceptPC, tunnels, cleanPC,
                   pool, pmu, sd, sdDereg, panicked>>

\* Tunnel.CloseOnIdle, second half: close(t.close), which panics on a closed
\* channel; returns true and releases the read lock.
CloseOnIdleClose(p) ==
    /\ ~panicked
    /\ pc[p].op = "CloseOnIdle"
    /\ panicked' = tunnels[pc[p].t].closed
    /\ tunnels' = [tunnels EXCEPT ![pc[p].t].closed = TRUE]
    /\ pc' = [pc EXCEPT ![p] = Idle]
    /\ last' = Last("CloseOnIdle", pc[p].t, "", Nil, 1, <<>>)
    /\ UNCHANGED <<rest, diedInPool, registered, connectors, session, acceptPC, cleanPC, pool,
                   pmu, sd, sdDereg>>

Unfiltered(cs) == cs

\* The list a reaper tick leaves: the connectors that are not closed, in order.
Survivors(cs) == SelectSeq(cs, LAMBDA c : ~IsClosed(c))

\* The SD calls of a reaper tick over the list cs, in the order they are made.
RECURSIVE CleanCalls(_)
CleanCalls(cs) ==
    IF cs = <<>> THEN <<>>
    ELSE <<SDCall(IF IsClosed(Head(cs)) THEN "Deregister" ELSE "Renew", Head(cs))>>
         \o CleanCalls(Tail(cs))

\* Deregister calls among calls that carry connector id c.
DeregCount(calls, c) ==
    Cardinality({i \in 1..Len(calls) : calls[i] = SDCall("Deregister", c)})

\* Tunnel.clean, the ticker branch: under the write lock, an empty list is left
\* alone; otherwise closed connectors are dropped (and deregistered) and the
\* others renewed.
Clean(t) ==
    /\ ~panicked
    /\ cleanPC[t] = "run"
    /\ TunnelLockFree(t)
    /\ LET cs == tunnels[t].connectors
           calls == IF sd THEN CleanCalls(cs) ELSE <<>>
       IN /\ \A c \in Conns : sdDereg[c] + DeregCount(calls, c) <= MaxDereg
          /\ tunnels' = [tunnels EXCEPT ![t].connectors = Survivors(cs)]
          /\ sdDereg' = [c \in Conns |-> sdDereg[c] + DeregCount(calls, c)]
          /\ last' = Last("clean", t, "", Nil, 0, calls)
    /\ UNCHANGED <<rest, diedInPool, registered, connectors, session, acceptPC, cleanPC, pool,
                   pmu, pc, sd, panicked>>

CleanStay(t) ==
    /\ ~panicked
    /\ cleanPC[t] = "run"
    /\ tunnels[t].closed
    /\ last' = Other
    /\ UNCHANGED <<rest, diedInPool, registered, connectors, session, acceptPC, tunnels, pool,
                   pmu, pc, sd, sdDereg, panicked, cleanPC>>

\* Tunnel.clean, the close branch: the reaper returns once the channel is closed.
CleanExit(t) ==
    /\ ~panicked
    /\ cleanPC[t] = "run"
    /\ tunnels[t].closed
    /\ cleanPC' = [cleanPC EXCEPT ![t] = "done"]
    /\ last' = Other
    /\ UNCHANGED <<rest, diedInPool, registered, connectors, session, acceptPC, tunnels, pool,
                   pmu, pc, sd, sdDereg, panicked>>

\* ----------------------------------------------------------- SpecTunnel
\* The tunnel is built without SD, so the accept loops of its connectors make
\* no SD call and touch nothing the tunnel reads; their steps are left out.
NextTunnel ==
    \/ \E c \in Conns, udp \in BOOLEAN, w \in Weights :
          InOrder(c, udp, w) /\ NewConnector(c, 1, udp, w)
    \/ \E c \in Conns : ConnectorClose(c)
    \/ \E c \in Conns : SessionFail(c)
    \/ \E c \in Conns \cup {Nil} : AddConnector(1, c)
    \/ \E n \in Networks : GetConnector(1, n)
    \/ TunnelClose(1)
    \/ \E p \in Procs : CloseOnIdleEnter(p, 1)
    \/ \E p \in Procs : CloseOnIdleClose(p)
    \/ Clean(1)
    \/ CleanExit(1)

SpecTunnel == InitTunnel /\ [][NextTunnel]_vars

\* -------------------------------------------------------- ConnectorPool
NoPoolLock == TRUE

\* p.mu.Lock() can be taken.
PoolLockFree == pmu = Nil

\* Keys of ConnectorPool.tunnels.
PoolKeys == {k \in Tids : pool[k] # Nil}

FreeTunnels == {t \in TunnelObjs : ~tunnels[t].alloc}

\* ConnectorPool.Add(tid, c, ttl), first part: takes the pool lock and looks the
\* tunnel up. The caller is a BIND, which adds the connector it has just built
\* under the connector's own tunnel ID.
AddBegin(p, tid, c) ==
    /\ ~panicked
    /\ pc[p].op = "idle"
    /\ connectors[c].created
    /\ connectors[c].tid = tid
    /\ c \notin registered
    /\ registered' = registered \cup {c}
    /\ IF pool[tid] = Nil THEN FreeTunnels # {}
       ELSE Len(tunnels[pool[tid]].connectors) < MaxList
    /\ PoolLockFree
    /\ pmu' = p
    /\ pc' = [pc EXCEPT ![p] = [op |-> "AddStore", tid |-> tid, c |-> c, t |-> pool[tid]]]
    /\ last' = Other
    /\ UNCHANGED <<rest, diedInPool, connectors, session, acceptPC, tunnels, cleanPC, pool, sd,
                   sdDereg, panicked>>

\* ConnectorPool.Add, second part: when the lookup found no tunnel, NewTunnel
\* builds one (starting its reaper) and it is stored under the tid.
AddStore(p) ==
    /\ ~panicked
    /\ pc[p].op = "AddStore"
    /\ IF pc[p].t = Nil
       THEN /\ FreeTunnels # {}
            /\ LET t == CHOOSE f \in FreeTunnels : \A g \in FreeTunnels : f <= g
               IN /\ tunnels' = [tunnels EXCEPT ![t] =
                         [alloc |-> TRUE, id |-> pc[p].tid, connectors |-> <<>>, closed |-> FALSE]]
                  /\ cleanPC' = [cleanPC EXCEPT ![t] = "run"]
                  /\ pool' = [pool EXCEPT ![pc[p].tid] = t]
                  /\ pc' = [pc EXCEPT ![p].op = "AddFinish", ![p].t = t]
       ELSE /\ pc' = [pc EXCEPT ![p].op = "AddFinish"]
            /\ UNCHANGED <<rest, registered, tunnels, cleanPC, pool>>
    /\ last' = Other
    /\ UNCHANGED <<rest, diedInPool, registered, connectors, session, acceptPC, pmu, sd, sdDereg,
                   panicked>>

\* ConnectorPool.Add, last part: t.AddConnector(c), then the pool lock is released.
AddFinish(p) ==
    /\ ~panicked
    /\ pc[p].op = "AddFinish"
    /\ TunnelLockFree(pc[p].t)
    /\ tunnels' = [tunnels EXCEPT ![pc[p].t].connectors = AppendConnector(@, pc[p].c)]
    /\ pmu' = Nil
    /\ pc' = [pc EXCEPT ![p] = Idle]
    /\ last' = Last("Add", pc[p].tid, "", pc[p].c, 0, <<>>)
    /\ UNCHANGED <<rest, diedInPool, registered, connectors, session, acceptPC, cleanPC, pool, sd,
                   sdDereg, panicked>>

\* ConnectorPool.Get(network, tid) with a get-or-create lookup.
PoolGetOrCreate(tid, network) ==
    /\ ~panicked
    /\ PoolLockFree
    /\ IF pool[tid] = Nil /\ FreeTunnels # {}
       THEN LET t == CHOOSE f \in FreeTunnels : TRUE
            IN /\ tunnels' = [tunnels EXCEPT ![t] =
                      [alloc |-> TRUE, id |-> tid, connectors |-> <<>>, closed |-> FALSE]]
               /\ cleanPC' = [cleanPC EXCEPT ![t] = "run"]
               /\ pool' = [pool EXCEPT ![tid] = t]
               /\ last' = Last("Get", tid, network, Nil, 0, <<>>)
       ELSE /\ \E r \in (IF pool[tid] = Nil THEN {Nil}
                          ELSE GetConnectorResults(tunnels[pool[tid]].connectors, network)) :
                  last' = Last("Get", tid, network, r, 0, <<>>)
            /\ UNCHANGED <<rest, registered, tunnels, cleanPC, pool>>
    /\ UNCHANGED <<rest, diedInPool, registered, connectors, session, acceptPC, pmu, pc, sd,
                   sdDereg, panicked>>

\* ConnectorPool.Get(network, tid): under the read lock, nil for a missing key,
\* else the tunnel's GetConnector(network).
PoolGet(tid, network) ==
    /\ ~panicked
    /\ PoolLockFree
    /\ \E r \in (IF pool[tid] = Nil THEN {Nil}
                 ELSE GetConnectorResults(tunnels[pool[tid]].connectors, network)) :
          last' = Last("Get", tid, network, r, 0, <<>>)
    /\ UNCHANGED <<rest, diedInPool, registered, connectors, session, acceptPC, tunnels, cleanPC,
                   pool, pmu, pc, sd, sdDereg, panicked>>

PoolClosesNone == {}

\* The connectors ConnectorPool.Close closes: those Tunnel.Close closes in each
\* tunnel of the map.
PoolClosedConnectors == UNION {ClosedByClose(pool[k]) : k \in PoolKeys}

\* ConnectorPool.Close: under the pool lock, closes every tunnel of the map and
\* deletes its entry.
PoolCloseStep ==
    /\ ~panicked
    /\ PoolLockFree
    /\ \A k \in PoolKeys : TunnelLockFree(pool[k])
    /\ session' = [c \in Conns |-> IF c \in PoolClosedConnectors THEN "closed" ELSE session[c]]
    /\ tunnels' = [t \in TunnelObjs |->
                     IF \E k \in PoolKeys : pool[k] = t
                     THEN [tunnels[t] EXCEPT !.closed = TRUE] ELSE tunnels[t]]
    /\ pool' = [k \in Tids |-> Nil]
    /\ last' = Last("PoolClose", Nil, "", Nil, Cardinality(PoolKeys), <<>>)
    /\ UNCHANGED <<diedInPool, registered, connectors, acceptPC, cleanPC, pmu, pc, sd,
                   sdDereg, panicked>>

\* ConnectorPool.Close called on its own.
PoolClose == PoolCloseStep /\ UNCHANGED rest

\* Keys whose tunnel CloseOnIdle closes during a sweep.
IdleKeys == {k \in PoolKeys : IdleCheck(pool[k])}

DeletesNone == {}

\* Keys closeIdles deletes from the map: those whose CloseOnIdle returned true.
DeletedKeys == IdleKeys

\* ConnectorPool.closeIdles, one tick: under the pool lock, every tunnel for
\* which CloseOnIdle returns true is deleted from the map.
CloseIdlesStep ==
    /\ ~panicked
    /\ PoolLockFree
    /\ tunnels' = [t \in TunnelObjs |->
                     IF \E k \in IdleKeys : pool[k] = t
                     THEN [tunnels[t] EXCEPT !.closed = TRUE] ELSE tunnels[t]]
    /\ pool' = [k \in Tids |-> IF k \in DeletedKeys THEN Nil ELSE pool[k]]
    /\ last' = Last("closeIdles", Nil, "", Nil, Cardinality(IdleKeys), <<>>)
    /\ UNCHANGED <<diedInPool, registered, connectors, session, acceptPC, cleanPC, pmu, pc,
                   sd, sdDereg, panicked>>

\* The sweeper of a pool built by NewConnectorPool takes a tick.
CloseIdles == CloseIdlesStep /\ UNCHANGED rest

\* ----------------------------------------------------------------- Spec
Next ==
    \/ \E c \in PoolConns, tid \in Tids, udp \in BOOLEAN, w \in PoolWeights :
          NextFree(c) /\ NewConnector(c, tid, udp, w)
    \/ \E c \in Conns : SessionFail(c)
    \/ \E c \in Conns : AcceptFail(c)
    \/ \E p \in Procs, tid \in Tids, c \in Conns : AddBegin(p, tid, c)
    \/ \E p \in Procs : AddStore(p)
    \/ \E p \in Procs : AddFinish(p)
    \/ \E tid \in Tids, n \in Networks : PoolGet(tid, n)
    \/ PoolClose
    \/ CloseIdles
    \/ \E t \in TunnelObjs : Clean(t)
    \/ \E t \in TunnelObjs : CleanExit(t)

Spec == Init /\ [][Next]_vars

\* -------------------------------------------------------- tunnelHandler
\* The relay requests Handle is driven with. Without a Tunnel feature the
\* tunnel ID keeps its zero value; a Tunnel feature carries the zero ID or a tid.
Requests ==
    {r \in [version : Versions, cmd : Cmds, tunnel : BOOLEAN, tid : {Nil} \cup Tids,
            user : Users, network : {"tcp"}] : ~r.tunnel => r.tid = Nil}

TunnelIDNeverZero(req) == FALSE

\* relay.TunnelID.IsZero on the tunnelID variable after the feature loop.
TunnelIDIsZero(req) == req.tid = Nil

\* Auther.Authenticate(ctx, user, pass): the authenticator knows one user.
Authenticate(user) == user = "good"

CmdUnmasked(cmd) == cmd

\* req.Cmd & relay.CmdMask
CmdMasked(cmd) == cmd % (CmdMask + 1)

RateLimitOff(allow) == TRUE

\* tunnelHandler.checkRateLimit: no rate limiter, or no limiter for the host,
\* admits; otherwise limiter.Allow(1) decides.
CheckRateLimit(allow) ==
    IF hopts.rateLimiter = "none" THEN TRUE
    ELSE IF hopts.rateLimiter = "nohost" THEN TRUE
    ELSE allow

VersionAny(req) == FALSE

\* req.Version != relay.Version1
BadVersion(req) == req.version # Version1

\* A return of Handle: the exit taken, the request, the rate limiter's verdict,
\* whether ReadFrom was called, the number of Authenticate calls, the statuses
\* written and the error returned.
Exit(path, req, allow, read, auth, resp, err) ==
    [h |-> "tunnel", path |-> path, req |-> req, allow |-> allow, read |-> read, auth |-> auth,
     resp |-> resp, err |-> err, closed |-> FALSE, c |-> Nil]

\* tunnelHandler.Handle from its first statement to the command switch: the
\* exit it takes, or the branch of the switch ("connect", "bind").
PreDispatch(req, allow, readOK) ==
    IF ~CheckRateLimit(allow) THEN Exit("ratelimit", NoRequest, allow, FALSE, 0, <<>>, "ErrRateLimit")
    ELSE IF ~readOK THEN Exit("read", NoRequest, allow, TRUE, 0, <<>>, "ErrRead")
    ELSE IF BadVersion(req) THEN Exit("version", req, allow, TRUE, 0, <<"BadRequest">>, "ErrBadVersion")
    ELSE IF TunnelIDIsZero(req)
         THEN Exit("tunnelid", req, allow, TRUE, 0, <<"BadRequest">>, "ErrTunnelID")
    ELSE IF hopts.auther /\ ~Authenticate(req.user)
         THEN Exit("auth", req, allow, TRUE, 1, <<"Unauthorized">>, "ErrUnauthorized")
    ELSE LET auth == IF hopts.auther THEN 1 ELSE 0
         IN IF CmdMasked(req.cmd) = CmdConnect THEN Exit("connect", req, allow, TRUE, auth, <<>>, "nil")
            ELSE IF CmdMasked(req.cmd) = CmdBind THEN Exit("bind", req, allow, TRUE, auth, <<>>, "nil")
            ELSE Exit("unknown", req, allow, TRUE, auth, <<"BadRequest">>, "ErrUnknownCmd")

\* The deferred function of Handle closes the connection when the error
\* returned is not nil; the CONNECT branch defers a Close of its own.
DeferredClose(ret) == ret.err # "nil" \/ ret.path = "connect"

Returned(ret) == [ret EXCEPT !.closed = DeferredClose(ret)]

\* Handle on a request that does not reach the CONNECT or BIND branch.
HandleReject(req, allow, readOK) ==
    /\ hopts.kind = "tunnel"
    /\ PreDispatch(req, allow, readOK).path \notin {"connect", "bind"}
    /\ hret' = Returned(PreDispatch(req, allow, readOK))
    /\ UNCHANGED <<poolVars, hopts, hwait, listenerVars, lifeVars, relay, auxVars>>

\* handleConnect: the upstream is a stream of a connector the pool returns for
\* the tunnel ID; without a connector the reply is ServiceUnavailable, and a
\* connector whose session is gone fails GetConn.
ConnectOutcome(ret, c) ==
    IF c = Nil
    THEN [ret EXCEPT !.resp = <<"ServiceUnavailable">>, !.err = "ErrTunnelNotAvailable"]
    ELSE IF IsClosed(c)
    THEN [ret EXCEPT !.resp = <<"ServiceUnavailable">>, !.err = "ErrGetConn", !.c = c]
    ELSE [ret EXCEPT !.resp = <<"OK">>, !.c = c]

\* What ConnectorPool.Get(network, tid) can return.
PoolGetResults(tid, network) ==
    IF tid \notin Tids \/ pool[tid] = Nil THEN {Nil}
    ELSE GetConnectorResults(tunnels[pool[tid]].connectors, network)

\* Handle on a request that reaches the CONNECT branch.
HandleConnect(req, allow, readOK) ==
    /\ hopts.kind = "tunnel"
    /\ PreDispatch(req, allow, readOK).path = "connect"
    /\ \E c \in PoolGetResults(req.tid, req.network) :
          hret' = Returned(ConnectOutcome(PreDispatch(req, allow, readOK), c))
    /\ UNCHANGED <<poolVars, hopts, hwait, listenerVars, lifeVars, relay, auxVars>>

\* ConnectorPool.Add(tid, c, ttl) as one step: the pool lock is held from the
\* lookup to the append.
TunnelForAdd(tid) ==
    IF pool[tid] # Nil THEN pool[tid]
    ELSE CHOOSE f \in FreeTunnels : \A g \in FreeTunnels : f <= g

PoolAdd(tid, c) ==
    LET t == TunnelForAdd(tid)
    IN /\ tunnels' = [tunnels EXCEPT ![t] =
              IF pool[tid] # Nil THEN [@ EXCEPT !.connectors = AppendConnector(@, c)]
              ELSE [alloc |-> TRUE, id |-> tid, connectors |-> AppendConnector(<<>>, c),
                    closed |-> FALSE]]
       /\ cleanPC' = IF pool[tid] # Nil THEN cleanPC ELSE [cleanPC EXCEPT ![t] = "run"]
       /\ pool' = [pool EXCEPT ![tid] = t]

\* Handle on a request that reaches the BIND branch, up to the registration:
\* handleBind replies OK, upgrades the connection to a mux session, builds
\* connector c on it and adds it to the pool; then it waits for the session.
\* When the upgrade fails (ok false) it returns the error at once.
HandleBind(req, allow, readOK, ok, c) ==
    /\ hopts.kind = "tunnel"
    /\ ~panicked
    /\ PreDispatch(req, allow, readOK).path = "bind"
    /\ IF ok
       THEN /\ req.tid \in Tids
            /\ ~connectors[c].created
            /\ NextFree(c)
            /\ IF pool[req.tid] = Nil THEN FreeTunnels # {}
               ELSE Len(tunnels[pool[req.tid]].connectors) < MaxList
            /\ connectors' = [connectors EXCEPT ![c] =
                   [created |-> TRUE, udp |-> req.network = "udp", weight |-> 1, tid |-> req.tid]]
            /\ session' = [session EXCEPT ![c] = "open"]
            /\ acceptPC' = [acceptPC EXCEPT ![c] = "run"]
            /\ registered' = registered \cup {c}
            /\ PoolAdd(req.tid, c)
            /\ hwait' = hwait \cup {c}
            /\ hret' = [Exit("pending", req, allow, TRUE, 0, <<"OK">>, "nil") EXCEPT !.c = c]
       ELSE /\ hret' = Returned([PreDispatch(req, allow, readOK) EXCEPT !.err = "ErrMux"])
            /\ UNCHANGED <<connectors, session, acceptPC, registered, tunnels, cleanPC, pool, hwait>>
    /\ UNCHANGED <<diedInPool, pmu, pc, sd, sdDereg, panicked, last, hopts, listenerVars, lifeVars, relay, auxVars>>

\* The underlying connection of connector c has been closed: the accept loop
\* closed the session after its Accept failed.
TransportClosed(c) == acceptPC[c] = "done"

\* Handle on a BIND, the return: the session of connector c has ended and
\* handleBind returns nil; the deferred function leaves the connection as it is.
BindReturn(c) ==
    /\ hopts.kind = "tunnel"
    /\ c \in hwait
    /\ IsClosed(c)
    /\ hwait' = hwait \ {c}
    /\ hret' = [Exit("bind", NoRequest, TRUE, TRUE, 0, <<"OK">>, "nil")
                   EXCEPT !.closed = TransportClosed(c), !.c = c]
    /\ UNCHANGED <<poolVars, hopts, listenerVars, lifeVars, relay, auxVars>>

\* ------------------------------------------- socks4, socks5, http2 Handle
Socks4Cmds == {"connect", "bind", "other"}
Socks5Cmds == {"connect", "bind", "muxbind", "udp", "udptun", "other"}
SubResults == {"nil", "ErrSub"}

\* A return of a Handle that starts with `defer conn.Close()`.
ClosingExit(h, path, allow, read, auth, err) ==
    [h |-> h, path |-> path, req |-> NoRequest, allow |-> allow, read |-> read, auth |-> auth,
     resp |-> <<>>, err |-> err, closed |-> TRUE, c |-> Nil]

\* socks4Handler.Handle: sub is what the reply write or the CONNECT / BIND
\* sub-handler returns.
Socks4Result(allow, readOK, user, cmd, sub) ==
    IF ~CheckRateLimit(allow) THEN ClosingExit("socks4", "ratelimit", allow, FALSE, 0, "nil")
    ELSE IF ~readOK THEN ClosingExit("socks4", "read", allow, TRUE, 0, "ErrRead")
    ELSE IF hopts.auther /\ ~Authenticate(user) THEN ClosingExit("socks4", "auth", allow, TRUE, 1, sub)
    ELSE LET auth == IF hopts.auther THEN 1 ELSE 0
         IN IF cmd \in {"connect", "bind"} THEN ClosingExit("socks4", cmd, allow, TRUE, auth, sub)
            ELSE ClosingExit("socks4", "unknown", allow, TRUE, auth, "ErrUnknownCmd")

Socks4Handle(allow, readOK, user, cmd, sub) ==
    /\ hopts.kind = "socks4"
    /\ hret' = Socks4Result(allow, readOK, user, cmd, sub)
    /\ UNCHANGED <<poolVars, hopts, hwait, listenerVars, lifeVars, relay, auxVars>>

\* socks5Handler.Handle: the method negotiation and the request are read by
\* ReadRequest; sub is what the dispatched sub-handler returns.
Socks5Result(allow, readOK, cmd, sub) ==
    IF ~CheckRateLimit(allow) THEN ClosingExit("socks5", "ratelimit", allow, FALSE, 0, "nil")
    ELSE IF ~readOK THEN ClosingExit("socks5", "read", allow, TRUE, 0, "ErrRead")
    ELSE IF cmd # "other" THEN ClosingExit("socks5", cmd, allow, TRUE, 0, sub)
    ELSE ClosingExit("socks5", "unknown", allow, TRUE, 0, "ErrUnknownCmd")

Socks5Handle(allow, readOK, cmd, sub) ==
    /\ hopts.kind = "socks5"
    /\ hret' = Socks5Result(allow, readOK, cmd, sub)
    /\ UNCHANGED <<poolVars, hopts, hwait, listenerVars, lifeVars, relay, auxVars>>

\* http2Handler.Handle: a connection that carries no metadata is refused,
\* otherwise sub is what roundTrip returns.
HTTP2Result(allow, typed, sub) ==
    IF ~CheckRateLimit(allow) THEN ClosingExit("http2", "ratelimit", allow, FALSE, 0, "nil")
    ELSE IF ~typed THEN ClosingExit("http2", "conntype", allow, FALSE, 0, "ErrConnType")
    ELSE ClosingExit("http2", "roundTrip", allow, TRUE, 0, sub)

HTTP2Handle(allow, typed, sub) ==
    /\ hopts.kind = "http2"
    /\ hret' = HTTP2Result(allow, typed, sub)
    /\ UNCHANGED <<poolVars, hopts, hwait, listenerVars, lifeVars, relay, auxVars>>

\* ---------------------------------------------------------- SpecHandler
\* One handler of some kind with its options; the tunnel handler owns an
\* empty pool built without SD.
InitHandler ==
    /\ InitCommon
    /\ sd = FALSE
    /\ tunnels = [t \in TunnelObjs |-> NoTunnel]
    /\ cleanPC = [t \in TunnelObjs |-> "none"]
    /\ hopts \in [kind : HandlerKinds, auther : BOOLEAN, rateLimiter : {"none", "nohost", "host"}]
    /\ hwait = {}
    /\ hret = NoReturn
    /\ NoListener
    /\ NoLife
    /\ NoRelay
    /\ NoAux

\* Allow(1) is consulted only when the host has a limiter.
AllowInputs == IF hopts.rateLimiter = "host" THEN BOOLEAN ELSE {TRUE}

NextHandler ==
    \/ \E req \in Requests, allow \in AllowInputs, readOK \in BOOLEAN :
          HandleReject(req, allow, readOK)
    \/ \E req \in Requests, allow \in AllowInputs, readOK \in BOOLEAN :
          HandleConnect(req, allow, readOK)
    \/ \E req \in Requests, allow \in AllowInputs, readOK \in BOOLEAN, ok \in BOOLEAN,
          c \in HandlerConns : HandleBind(req, allow, readOK, ok, c)
    \/ \E c \in HandlerConns : BindReturn(c)
    \/ \E c \in HandlerConns : hopts.kind = "tunnel" /\ SessionFail(c)
    \/ \E c \in HandlerConns : hopts.kind = "tunnel" /\ AcceptFail(c)
    \/ \E allow \in AllowInputs, readOK \in BOOLEAN, user \in Users, cmd \in Socks4Cmds,
          sub \in SubResults : Socks4Handle(allow, readOK, user, cmd, sub)
    \/ \E allow \in AllowInputs, readOK \in BOOLEAN, cmd \in Socks5Cmds, sub \in SubResults :
          Socks5Handle(allow, readOK, cmd, sub)
    \/ \E allow \in AllowInputs, typed \in BOOLEAN, sub \in SubResults :
          HTTP2Handle(allow, typed, sub)

SpecHandler == InitHandler /\ [][NextHandler]_vars

\* ----------------------------------------------- handler Init and Close
\* What Init can return: parseMetadata (or, in the tunnel handler, the UUID
\* generator) fails before anything is built; the tunnel handler's
\* initEntrypoint fails after the pool is built and before the context is.
InitResults(kind) ==
    IF kind = "tunnel" THEN {"nil", "ErrMetadata", "ErrEntrypoint"} ELSE {"nil", "ErrMetadata"}

LifeRet(op, err) == [op |-> op, err |-> err, again |-> hlife.closed,
                     cancelled |-> hlife.cancel = "cancelled"]

\* Init(md) of the tunnel, socks4, socks5 and http2 handlers: the tunnel
\* handler builds its pool (whose sweeper starts); then the context and its
\* cancel function are made, and with an Observer observeStats is started.
\* Init is called once, on a handler that has not been closed.
HandlerInit(res) ==
    /\ hopts.kind \in HandlerKinds
    /\ hlife.init = "new"
    /\ ~hlife.closed
    /\ res \in InitResults(hopts.kind)
    /\ hlife' = [hlife EXCEPT !.init = IF res = "nil" THEN "ok" ELSE "failed",
                               !.pool = hopts.kind = "tunnel" /\ res # "ErrMetadata",
                               !.cancel = IF res = "nil" THEN "set" ELSE "nil"]
    /\ sweepPC' = IF hopts.kind = "tunnel" /\ res # "ErrMetadata" THEN "run" ELSE sweepPC
    /\ observePC' = IF res = "nil" /\ hlife.observer THEN "run" ELSE observePC
    /\ lifeRet' = LifeRet("Init", res)
    /\ UNCHANGED <<poolVars, handlerVars, listenerVars, relay, auxVars>>

\* Close of the four handlers: the tunnel handler closes its pool (Close of a
\* nil pool does nothing); a cancel function that was set is called.
HandlerClose ==
    /\ hopts.kind \in HandlerKinds
    /\ IF hopts.kind = "tunnel" /\ hlife.pool THEN PoolCloseStep ELSE UNCHANGED poolVars
    /\ hlife' = [hlife EXCEPT !.closed = TRUE,
                               !.cancel = IF @ = "nil" THEN "nil" ELSE "cancelled"]
    /\ lifeRet' = LifeRet("Close", "nil")
    /\ UNCHANGED <<handlerVars, listenerVars, relay, auxVars, observePC, sweepPC>>

CtxNeverDone == FALSE

\* <-ctx.Done() is ready.
CtxDone == hlife.cancel = "cancelled"

\* observeStats, the ticker branch: one Observe call.
Observe ==
    /\ observePC = "run"
    /\ lifeRet' = LifeRet("Observe", "nil")
    /\ UNCHANGED <<poolVars, handlerVars, listenerVars, relay, auxVars, hlife, observePC, sweepPC>>

\* observeStats, the ctx.Done() branch: the task returns.
ObserveExit ==
    /\ observePC = "run"
    /\ CtxDone
    /\ observePC' = "done"
    /\ lifeRet' = LifeRet("ObserveExit", "nil")
    /\ UNCHANGED <<poolVars, handlerVars, listenerVars, relay, auxVars, hlife, sweepPC>>

\* ConnectorPool.closeIdles, the goroutine NewConnectorPool starts: a tick.
SweepTick == sweepPC = "run" /\ CloseIdles

\* ------------------------------------------------------------- SpecLife
\* A handler of some kind from NewHandler to after Close, with the tasks it
\* starts; the tunnel handler serves BIND requests between Init and Close.
InitLife ==
    /\ InitCommon
    /\ sd = FALSE
    /\ tunnels = [t \in TunnelObjs |-> NoTunnel]
    /\ cleanPC = [t \in TunnelObjs |-> "none"]
    /\ hopts \in [kind : HandlerKinds, auther : {FALSE}, rateLimiter : {"none"}]
    /\ hwait = {}
    /\ hret = NoReturn
    /\ NoListener
    /\ hlife \in [observer : BOOLEAN, init : {"new"}, pool : {FALSE}, cancel : {"nil"},
                  closed : {FALSE}]
    /\ observePC = "none"
    /\ sweepPC = "none"
    /\ lifeRet = NoLifeRet
    /\ NoRelay
    /\ NoAux

\* The BIND requests that reach registration.
Binds == {r \in Requests : r.version = Version1 /\ r.cmd = CmdBind /\ r.tid = 1 /\ r.user = "good"}

\* The handler is serving: Init returned nil and Close has not been called.
Serving == hlife.init = "ok" /\ ~hlife.closed

NextLife ==
    \/ \E res \in {"nil", "ErrMetadata", "ErrEntrypoint"} : HandlerInit(res)
    \/ HandlerClose
    \/ Observe
    \/ ObserveExit
    \/ SweepTick
    \/ \E req \in Binds, c \in PoolConns : Serving /\ HandleBind(req, TRUE, TRUE, TRUE, c)
    \/ \E c \in PoolConns : BindReturn(c)
    \/ \E c \in PoolConns : ConnectorClose(c)
    \/ \E c \in PoolConns : SessionFail(c)
    \/ \E c \in PoolConns : AcceptFail(c)
    \/ \E t \in TunnelObjs : Clean(t)
    \/ \E t \in TunnelObjs : CleanExit(t)

\* A runnable goroutine is scheduled, and a select whose ready case stays
\* ready takes it after finitely many rounds.
FairLife ==
    /\ WF_vars(ObserveExit)
    /\ \A t \in TunnelObjs : WF_vars(CleanExit(t))
    /\ \A c \in PoolConns : WF_vars(AcceptFail(c))

SpecLife == InitLife /\ [][NextLife]_vars /\ FairLife

\* ------------------------------------------- Handle calls, step by step
CallUnchanged == UNCHANGED <<poolVars, handlerVars, listenerVars, lifeVars, relay, peerStreams,
                             copts, lk>>

\* One thing a call did: "dispatch", "dial", "splice", or "reply" with the
\* status written and whether the write succeeded.
Ev(what) == [e |-> what, status |-> "", ok |-> TRUE]
Reply(status, wok) == [e |-> "reply", status |-> status, ok |-> wok]

\* The replies of each protocol.
StatusOf(kind, what) ==
    CASE kind = "socks4" ->
           (CASE what = "auth" -> "RejectedUserid" [] what = "bypass" -> "Rejected"
              [] what = "dial" -> "Failed" [] OTHER -> "Granted")
      [] kind = "socks5" ->
           (CASE what = "auth" -> "AuthFailure" [] what = "bypass" -> "NotAllowed"
              [] what = "dial" -> "NetUnreachable" [] OTHER -> "Succeeded")
      [] kind = "http2" ->
           (CASE what = "auth" -> "ProxyAuthRequired" [] what = "bypass" -> "Forbidden"
              [] what = "dial" -> "ServiceUnavailable" [] OTHER -> "OK")
      [] OTHER -> "BadRequest"

CallReturnLeak(c, err, closing) == [c EXCEPT !.pc = "returned", !.err = err, !.closed = closing]

\* A return of Handle: the deferred calls close the upstream conn if one was
\* dialled (defer cc.Close()) and conn (defer conn.Close(); in the tunnel
\* handler only on an error).
CallReturn(c, err, closing) ==
    [c EXCEPT !.pc = "returned", !.err = err, !.closed = closing,
              !.cc = IF @ = "open" THEN "closed" ELSE @]

WriteErr(wok) == IF wok THEN "nil" ELSE "ErrWrite"

KeepDeadline(d) == d

\* conn.SetReadDeadline(time.Time{})
ClearDeadline(d) == FALSE

AuthSkipped(user) == TRUE

\* No authenticator is configured, or it accepts the user.
AuthPassed(user) == ~hopts.auther \/ Authenticate(user)

\* The selector of the socks5 server conn negotiates the method and checks the
\* user while the request is read: a user the authenticator refuses is
\* answered with a failure status and the read fails.
SelectorRefuses(user) == hopts.kind = "socks5" /\ ~AuthPassed(user)

BypassIgnored(matched) == FALSE

\* h.options.Bypass != nil && h.options.Bypass.Contains(...)
Bypassed(matched) == copts.bypass /\ matched

\* Handle up to the handshake read: the rate limit, then the read deadline.
\* The http2 handler reads nothing: it takes w and r from the conn's metadata.
CallStart(i, allow, mdok) ==
    /\ hopts.kind \in HandlerKinds
    /\ call[i].pc = "idle"
    /\ gauge.started < MaxStarted
    /\ gauge' = [gauge EXCEPT !.started = @ + 1]
    /\ call' = [call EXCEPT ![i] =
         IF ~CheckRateLimit(allow)
         THEN CallReturn(@, IF hopts.kind = "tunnel" THEN "ErrRateLimit" ELSE "nil", TRUE)
         ELSE IF hopts.kind = "http2"
         THEN IF mdok THEN [@ EXCEPT !.pc = "roundTrip"] ELSE CallReturn(@, "ErrConnType", TRUE)
         ELSE [@ EXCEPT !.pc = "read", !.deadline = copts.readTimeout]]
    /\ CallUnchanged

\* The handshake read of the tunnel, socks4 and socks5 handlers and what
\* follows it up to the command switch. A failed read returns at once. The
\* socks5 authentication is part of the read (the selector of the server conn
\* answers a bad user and fails the read); socks4 authenticates after clearing
\* the deadline; the tunnel handler checks version, tunnel ID and user.
CallRead(i, rok, user, checked, cmd, wok) ==
    /\ call[i].pc = "read"
    /\ call' = [call EXCEPT ![i] =
         LET k == hopts.kind
             passed == AuthPassed(user)
             cleared == [@ EXCEPT !.deadline = ClearDeadline(@), !.user = user]
             sent == [cleared EXCEPT !.ev = Append(@, Ev("dispatch"))]
         IN IF ~rok THEN CallReturn(@, "ErrRead", TRUE)
            ELSE IF SelectorRefuses(user)
            THEN CallReturn([@ EXCEPT !.user = user,
                                      !.ev = Append(@, Reply(StatusOf(k, "auth"), wok))],
                            "ErrRead", TRUE)
            ELSE IF k = "socks4" /\ ~passed
            THEN CallReturn([cleared EXCEPT !.ev = Append(@, Reply(StatusOf(k, "auth"), wok))],
                            WriteErr(wok), TRUE)
            ELSE IF k = "tunnel" /\ (~checked \/ ~passed)
            THEN CallReturn([cleared EXCEPT !.ev = Append(@, Reply(StatusOf(k, "auth"), wok))],
                            "ErrCheck", TRUE)
            ELSE IF k # "tunnel" /\ cmd = "connect" THEN [sent EXCEPT !.pc = "connect"]
            ELSE IF k = "socks4" /\ cmd = "bind" THEN CallReturn(sent, "ErrUnimplemented", TRUE)
            ELSE IF k = "socks4" THEN CallReturn(cleared, "ErrUnknownCmd", TRUE)
            ELSE IF k = "socks5" /\ cmd = "other"
            THEN CallReturn([cleared EXCEPT !.ev = Append(@, Reply("CmdUnsupported", wok))],
                            "ErrUnknownCmd", TRUE)
            ELSE [sent EXCEPT !.pc = "sub"]]
    /\ gauge' = gauge
    /\ CallUnchanged

\* A sub-handler other than CONNECT returns.
CallSubReturn(i, err) ==
    /\ call[i].pc = "sub"
    /\ call' = [call EXCEPT ![i] = CallReturn(@, err, hopts.kind # "tunnel" \/ err # "nil")]
    /\ gauge' = gauge
    /\ CallUnchanged

\* http2Handler.authenticate on a user the authenticator refuses: with
\* probing resistance and a host that is not the knock host the configured
\* decoy is served (a status code, a fetched page, a file, or the request is
\* forwarded to another host), 503 if its source fails; otherwise 407.
AuthFailureReply(knock, prok) ==
    IF copts.pr = "none" \/ knock THEN StatusOf("http2", "auth")
    ELSE IF copts.pr = "code" THEN "Decoy"
    ELSE IF ~prok THEN "ServiceUnavailable"
    ELSE IF copts.pr = "host" THEN "Forwarded" ELSE "Decoy"

\* handleConnect of socks4 and socks5 up to the dial: the bypass test, then
\* Router.Dial; a refused or failed request is answered and returned.
CallConnect(i, matched, dialok, wok) ==
    /\ hopts.kind \in {"socks4", "socks5"}
    /\ call[i].pc = "connect"
    /\ call' = [call EXCEPT ![i] =
         LET k == hopts.kind
             dialled == [@ EXCEPT !.bypassed = copts.bypass /\ matched,
                                  !.ev = Append(@, Ev("dial"))]
         IN IF Bypassed(matched)
            THEN CallReturn([@ EXCEPT !.bypassed = TRUE,
                                      !.ev = Append(@, Reply(StatusOf(k, "bypass"), wok))],
                            WriteErr(wok), TRUE)
            ELSE IF ~dialok
            THEN CallReturn([dialled EXCEPT !.ev = Append(@, Reply(StatusOf(k, "dial"), wok))],
                            "ErrDial", TRUE)
            ELSE [dialled EXCEPT !.pc = "reply", !.cc = "open"]]
    /\ gauge' = gauge
    /\ CallUnchanged

\* http2Handler.roundTrip up to the dial: authenticate, the bypass test, then
\* Router.Dial; a request that is not a CONNECT is dialled for and dropped.
CallRoundTrip(i, user, knock, prok, matched, dialok, connect) ==
    /\ hopts.kind = "http2"
    /\ call[i].pc = "roundTrip"
    /\ call' = [call EXCEPT ![i] =
         LET dialled == [@ EXCEPT !.user = user, !.bypassed = copts.bypass /\ matched,
                                  !.ev = Append(@, Ev("dial"))]
         IN IF ~AuthPassed(user)
            THEN CallReturn([@ EXCEPT !.user = user,
                                      !.ev = Append(@, Reply(AuthFailureReply(knock, prok), TRUE))],
                            "nil", TRUE)
            ELSE IF Bypassed(matched)
            THEN CallReturn([@ EXCEPT !.user = user, !.bypassed = TRUE,
                                      !.ev = Append(@, Reply(StatusOf("http2", "bypass"), TRUE))],
                            "nil", TRUE)
            ELSE IF ~dialok
            THEN CallReturn([dialled EXCEPT
                                !.ev = Append(@, Reply(StatusOf("http2", "dial"), TRUE))],
                            "ErrDial", TRUE)
            ELSE IF ~connect THEN CallReturn([dialled EXCEPT !.cc = "open"], "nil", TRUE)
            ELSE [dialled EXCEPT !.pc = "reply", !.cc = "open"]]
    /\ gauge' = gauge
    /\ CallUnchanged

\* The stats block runs: an observer is configured and the call is not on the
\* hijacked HTTP/1 path, which splices the raw conn.
Counts(proto) == copts.observer /\ proto = "h2"

\* The success reply and what follows it up to Transport: a failed write (or a
\* failed Hijack) returns; otherwise the gauges are raised when the stats
\* block runs, and the splice starts.
CallReply(i, wok, proto) ==
    /\ call[i].pc = "reply"
    /\ hopts.kind # "http2" => proto = "h2"
    /\ hopts.kind = "http2" => wok
    /\ LET replied == [call[i] EXCEPT !.ev = Append(@, Reply(StatusOf(hopts.kind, "ok"), wok))]
       IN IF ~wok
          THEN /\ call' = [call EXCEPT ![i] = CallReturn(replied, "ErrWrite", TRUE)]
               /\ gauge' = gauge
          ELSE IF proto = "h1err"
          THEN /\ call' = [call EXCEPT ![i] =
                     CallReturn([replied EXCEPT !.ev = Append(@, Reply("InternalServerError", TRUE))],
                                "ErrHijack", TRUE)]
               /\ gauge' = gauge
          ELSE /\ call' = [call EXCEPT ![i] =
                     [replied EXCEPT !.pc = "splice", !.counted = Counts(proto),
                                     !.ev = Append(@, Ev("splice"))]]
               /\ gauge' = IF Counts(proto)
                           THEN [gauge EXCEPT !.cur = @ + 1, !.total = @ + 1] ELSE gauge
    /\ CallUnchanged

\* netpkg.Transport returns and Handle with it: the deferred Add(-1) runs if
\* the stats block ran.
CallSpliceEnd(i) ==
    /\ call[i].pc = "splice"
    /\ call' = [call EXCEPT ![i] = CallReturn(@, "nil", TRUE)]
    /\ gauge' = IF call[i].counted THEN [gauge EXCEPT !.cur = @ - 1] ELSE gauge
    /\ CallUnchanged

\* The goroutine of a returned call is gone; the next conn gets a new one.
CallNext(i) ==
    /\ call[i].pc = "returned"
    /\ gauge.started < MaxStarted
    /\ call' = [call EXCEPT ![i] = NoCall]
    /\ gauge' = gauge
    /\ CallUnchanged

\* ----------------------------------------------------------- SpecConnect
\* A handler of some kind with its options, serving conns concurrently.
InitConnect ==
    /\ InitCommon
    /\ sd = FALSE
    /\ tunnels = [t \in TunnelObjs |-> NoTunnel]
    /\ cleanPC = [t \in TunnelObjs |-> "none"]
    /\ hopts \in [kind : HandlerKinds, auther : BOOLEAN, rateLimiter : {"none", "host"}]
    /\ hwait = {}
    /\ hret = NoReturn
    /\ NoListener
    /\ NoLife
    /\ NoRelay
    /\ NoStreams
    /\ NoLocks
    /\ copts \in {o \in [bypass : BOOLEAN, observer : BOOLEAN, readTimeout : BOOLEAN,
                         pr : {"none", "code", "web", "host", "file"}] :
                     /\ o.pr # "none" => hopts.kind = "http2" /\ hopts.auther
                     /\ o.readTimeout => hopts.kind # "http2"
                     /\ (o.bypass \/ o.observer) => hopts.kind # "tunnel"}
    /\ call = [i \in Invs |-> NoCall]
    /\ gauge = [cur |-> 0, total |-> 0, started |-> 0]

NextConnect ==
    \/ \E i \in Invs, allow \in BOOLEAN, mdok \in BOOLEAN : CallStart(i, allow, mdok)
    \/ \E i \in Invs, rok \in BOOLEAN, user \in Users, checked \in BOOLEAN,
          cmd \in {"connect", "bind", "other"}, wok \in BOOLEAN :
          CallRead(i, rok, user, checked, cmd, wok)
    \/ \E i \in Invs, err \in SubResults : CallSubReturn(i, err)
    \/ \E i \in Invs, matched \in BOOLEAN, dialok \in BOOLEAN, wok \in BOOLEAN :
          CallConnect(i, matched, dialok, wok)
    \/ \E i \in Invs, user \in Users, knock \in BOOLEAN, prok \in BOOLEAN, matched \in BOOLEAN,
          dialok \in BOOLEAN, connect \in BOOLEAN :
          CallRoundTrip(i, user, knock, prok, matched, dialok, connect)
    \/ \E i \in Invs, wok \in BOOLEAN, proto \in {"h2", "h1", "h1err"} : CallReply(i, wok, proto)
    \/ \E i \in Invs : CallSpliceEnd(i)
    \/ \E i \in Invs : CallNext(i)

SpecConnect == InitConnect /\ [][NextConnect]_vars

\* ------------------------------------------ the pool and tunnel locks
\* ConnectorPool.mu and Tunnel.mu are sync.RWMutex: a writer first announces
\* itself, which keeps new readers out, and has the lock once the readers it
\* found have left.
LockUnchanged == UNCHANGED <<poolVars, handlerVars, listenerVars, lifeVars, relay, peerStreams,
                             copts, call, gauge>>

\* One lock call of an operation: on the pool lock or on the lock of tunnel t.
Ins(a, onPool, t) == [a |-> a, pool |-> onPool, t |-> t]

\* The lock calls made on every tunnel of the pool in turn, `take` being what
\* acquires the tunnel lock and `drop` what releases it.
PerTunnel(take, drop) ==
    [n \in 1..(Len(take) + 1) * MaxTunnels |->
        LET t == ((n - 1) \div (Len(take) + 1)) + 1
            j == ((n - 1) % (Len(take) + 1)) + 1
        IN Ins(IF j <= Len(take) THEN take[j] ELSE drop, FALSE, t)]

WLock == <<"Announce", "Acquire">>

ProgramInverted(op, t) ==
    IF op = "clean"
    THEN <<Ins("Announce", FALSE, t), Ins("Acquire", FALSE, t), Ins("Announce", TRUE, t),
           Ins("Acquire", TRUE, t), Ins("Unlock", TRUE, t), Ins("Unlock", FALSE, t)>>
    ELSE IF op = "Add"
    THEN <<Ins("Announce", TRUE, t), Ins("Acquire", TRUE, t), Ins("Announce", FALSE, t),
           Ins("Acquire", FALSE, t), Ins("Unlock", FALSE, t), Ins("Unlock", TRUE, t)>>
    ELSE <<Ins("Step", FALSE, t)>>

\* The lock calls of each operation, in program order.
\*   Add:        p.mu.Lock, t.AddConnector (t.mu.Lock, Unlock), p.mu.Unlock
\*   Get:        p.mu.RLock, t.GetConnector (t.mu.RLock, RUnlock), p.mu.RUnlock
\*   Close:      p.mu.Lock, every v.Close (t.mu.Lock, Unlock), p.mu.Unlock
\*   closeIdles: p.mu.Lock, every v.CloseOnIdle (t.mu.RLock, RUnlock), p.mu.Unlock
\*   clean:      t.mu.Lock, Unlock on a tick
\*   accept:     the accept loop of a connector takes no lock
Program(op, t) ==
    CASE op = "Add" ->
           <<Ins("Announce", TRUE, t), Ins("Acquire", TRUE, t), Ins("Announce", FALSE, t),
             Ins("Acquire", FALSE, t), Ins("Unlock", FALSE, t), Ins("Unlock", TRUE, t)>>
      [] op = "Get" ->
           <<Ins("RLock", TRUE, t), Ins("RLock", FALSE, t), Ins("RUnlock", FALSE, t),
             Ins("RUnlock", TRUE, t)>>
      [] op = "Close" ->
           <<Ins("Announce", TRUE, t), Ins("Acquire", TRUE, t)>> \o PerTunnel(WLock, "Unlock")
             \o <<Ins("Unlock", TRUE, t)>>
      [] op = "closeIdles" ->
           <<Ins("Announce", TRUE, t), Ins("Acquire", TRUE, t)>>
             \o PerTunnel(<<"RLock">>, "RUnlock") \o <<Ins("Unlock", TRUE, t)>>
      [] op = "clean" ->
           <<Ins("Announce", FALSE, t), Ins("Acquire", FALSE, t), Ins("Unlock", FALSE, t)>>
      [] OTHER -> <<Ins("Step", FALSE, t)>>

LockOps == {"Add", "Get", "Close", "closeIdles", "clean", "accept"}

\* The lock a call is made on.
LockOf(ins) == IF ins.pool THEN lk.pool ELSE lk.tun[ins.t]

\* The call returns now rather than blocks.
CanDo(k, ins) ==
    CASE ins.a \in {"Announce", "RLock"} -> LockOf(ins).w = Nil /\ LockOf(ins).pending = Nil
      [] ins.a = "Acquire" -> LockOf(ins).r = {}
      [] OTHER -> TRUE

\* The lock after the call.
After(k, ins) ==
    CASE ins.a = "Announce" -> [LockOf(ins) EXCEPT !.pending = k]
      [] ins.a = "Acquire" -> [LockOf(ins) EXCEPT !.pending = Nil, !.w = k]
      [] ins.a = "RLock" -> [LockOf(ins) EXCEPT !.r = @ \cup {k}]
      [] ins.a = "RUnlock" -> [LockOf(ins) EXCEPT !.r = @ \ {k}]
      [] ins.a = "Unlock" -> [LockOf(ins) EXCEPT !.w = Nil]
      [] OTHER -> LockOf(ins)

\* A goroutine enters an operation.
LockStart(k, op, t) ==
    /\ lk.task[k].op = "idle"
    /\ lk' = [lk EXCEPT !.task[k] = [op |-> op, t |-> t, at |-> 1]]
    /\ LockUnchanged

\* The next lock call of the operation returns; after the last one the
\* operation is over.
LockStep(k) ==
    /\ lk.task[k].op # "idle"
    /\ LET prog == Program(lk.task[k].op, lk.task[k].t)
           ins == prog[lk.task[k].at]
           next == IF lk.task[k].at = Len(prog) THEN NoTask
                   ELSE [lk.task[k] EXCEPT !.at = @ + 1]
       IN /\ CanDo(k, ins)
          /\ lk' = IF ins.pool
                   THEN [lk EXCEPT !.pool = After(k, ins), !.task[k] = next]
                   ELSE [lk EXCEPT !.tun[ins.t] = After(k, ins), !.task[k] = next]
    /\ LockUnchanged

InitLocks ==
    /\ InitCommon
    /\ sd = FALSE
    /\ tunnels = [t \in TunnelObjs |-> NoTunnel]
    /\ cleanPC = [t \in TunnelObjs |-> "none"]
    /\ NoHandler
    /\ NoListener
    /\ NoLife
    /\ NoRelay
    /\ NoStreams
    /\ NoCalls
    /\ NoLocks

NextLocks ==
    \/ \E k \in Tasks, op \in LockOps, t \in TunnelObjs : LockStart(k, op, t)
    \/ \E k \in Tasks : LockStep(k)

\* A goroutine that can go on does, and one whose lock call can return again
\* and again is not passed over for ever (sync.Mutex hands a starving waiter
\* the lock; a pending writer of an RWMutex keeps new readers out).
FairLocks == \A k \in Tasks : SF_vars(LockStep(k))

SpecLocks == InitLocks /\ [][NextLocks]_vars /\ FairLocks

\* ------------------------------------------------------ relayHandler BIND
RelayUnchanged == UNCHANGED <<poolVars, handlerVars, listenerVars, lifeVars, auxVars>>

RelayReturnLeak(err) == [relay EXCEPT !.pc = "returned", !.err = err]

\* A return of handleBind: the deferred calls close what the function opened.
RelayReturn(err) ==
    [relay EXCEPT !.pc = "returned", !.err = err,
                  !.ln = IF @ = "open" THEN "closed" ELSE @,
                  !.session = IF @ = "open" THEN "closed" ELSE @]

\* resp.WriteTo(conn) with the given status, and whether the write succeeded.
Written(r, status, wok) == [r EXCEPT !.resp = Append(@, [status |-> status, ok |-> wok])]

\* relayHandler.handleBind: with BIND disabled the reply is Forbidden and the
\* write's error is returned; otherwise the network picks bindTCP or bindUDP.
RelayHandleBind(network, wok) ==
    /\ relay.pc = "idle"
    /\ relay' = IF ~relay.enableBind
                THEN Written([relay EXCEPT !.pc = "returned", !.network = network,
                                           !.err = IF wok THEN "nil" ELSE "ErrWrite"],
                             "Forbidden", wok)
                ELSE [relay EXCEPT !.pc = IF network = "tcp" THEN "bindTCP" ELSE "bindUDP",
                                   !.network = network]
    /\ RelayUnchanged

\* bindTCP, lc.Listen: on failure ServiceUnavailable is written and the error
\* returned.
BindTCPListen(ok, wok) ==
    /\ relay.pc = "bindTCP"
    /\ relay' = IF ok THEN [relay EXCEPT !.pc = "tcpReply", !.ln = "open"]
                ELSE Written(RelayReturn("ErrListen"), "ServiceUnavailable", wok)
    /\ RelayUnchanged

\* bindTCP, the OK response with the bound address.
BindTCPReply(wok) ==
    /\ relay.pc = "tcpReply"
    /\ relay' = IF wok THEN Written([relay EXCEPT !.pc = "tcpMux"], "OK", TRUE)
                ELSE Written(RelayReturn("ErrWrite"), "OK", FALSE)
    /\ RelayUnchanged

\* bindTCP, mux.ClientSession and what follows it: the endpoint service is
\* built and the goroutine draining the session started; then srv.Serve().
BindTCPMux(ok) ==
    /\ relay.pc = "tcpMux"
    /\ relay' = IF ok THEN [relay EXCEPT !.pc = "serve", !.session = "open", !.srv = "running",
                                          !.drain = "run"]
                ELSE RelayReturn("ErrMux")
    /\ RelayUnchanged

\* The peer of the BIND connection goes away: the session closes itself.
RelayPeerGone ==
    /\ relay.session = "open"
    /\ relay' = [relay EXCEPT !.session = "closed"]
    /\ RelayUnchanged

\* bindTCP's goroutine: session.Accept gives a stream the peer opened.
DrainStream ==
    /\ relay.drain = "run"
    /\ relay.session = "open"
    /\ relay.drained < MaxDrained
    /\ relay' = [relay EXCEPT !.drain = "got"]
    /\ RelayUnchanged

\* bindTCP's goroutine: conn.Close() on the stream just accepted.
DrainCloseStream ==
    /\ relay.drain = "got"
    /\ relay' = [relay EXCEPT !.drain = "run", !.drained = @ + 1]
    /\ RelayUnchanged

\* bindTCP's goroutine: session.Accept fails, the deferred srv.Close() runs.
DrainExit ==
    /\ relay.drain = "run"
    /\ relay.session = "closed"
    /\ relay' = [relay EXCEPT !.drain = "done", !.srv = "closed"]
    /\ RelayUnchanged

\* srv.Serve() returns: after the service was closed, or with an error of its
\* listener; bindTCP returns what it returned.
ServeReturn(failed) ==
    /\ relay.pc = "serve"
    /\ failed \/ relay.srv = "closed"
    /\ relay' = RelayReturn(IF relay.srv = "closed" THEN "nil" ELSE "ErrServe")
    /\ RelayUnchanged

\* bindUDP, lc.ListenPacket: on failure the error is returned.
BindUDPListen(ok) ==
    /\ relay.pc = "bindUDP"
    /\ relay' = IF ok THEN [relay EXCEPT !.pc = "udpReply", !.ln = "open"]
                ELSE RelayReturn("ErrListen")
    /\ RelayUnchanged

\* bindUDP, the OK response with the bound address.
BindUDPReply(wok) ==
    /\ relay.pc = "udpReply"
    /\ relay' = IF wok THEN Written([relay EXCEPT !.pc = "udpRun"], "OK", TRUE)
                ELSE Written(RelayReturn("ErrWrite"), "OK", FALSE)
    /\ RelayUnchanged

\* bindUDP, r.Run(ctx) returns: the relay has ended and bindUDP returns nil.
BindUDPRun ==
    /\ relay.pc = "udpRun"
    /\ relay' = RelayReturn("nil")
    /\ RelayUnchanged

\* The next BIND request is handed to handleBind; served counts the calls
\* that have returned.
RelayNext ==
    /\ relay.pc = "returned"
    /\ relay.drain \notin {"run", "got"}
    /\ relay.served < NumBinds
    /\ relay' = [NoBind EXCEPT !.enableBind = relay.enableBind, !.served = relay.served + 1]
    /\ RelayUnchanged

\* ------------------------------------------------------------ SpecRelay
\* A relay handler, with BIND enabled or not, serving BIND requests one after
\* the other.
InitRelay ==
    /\ InitCommon
    /\ sd = FALSE
    /\ tunnels = [t \in TunnelObjs |-> NoTunnel]
    /\ cleanPC = [t \in TunnelObjs |-> "none"]
    /\ NoHandler
    /\ NoListener
    /\ NoLife
    /\ relay \in {[NoBind EXCEPT !.enableBind = e] : e \in BOOLEAN}
    /\ NoAux

NextRelay ==
    \/ \E network \in Networks, wok \in BOOLEAN : RelayHandleBind(network, wok)
    \/ \E ok \in BOOLEAN, wok \in BOOLEAN : BindTCPListen(ok, wok)
    \/ \E wok \in BOOLEAN : BindTCPReply(wok)
    \/ \E ok \in BOOLEAN : BindTCPMux(ok)
    \/ RelayPeerGone
    \/ DrainStream
    \/ DrainCloseStream
    \/ DrainExit
    \/ \E failed \in BOOLEAN : ServeReturn(failed)
    \/ \E ok \in BOOLEAN : BindUDPListen(ok)
    \/ \E wok \in BOOLEAN : BindUDPReply(wok)
    \/ BindUDPRun
    \/ RelayNext

\* The goroutine of bindTCP is scheduled, and a Serve whose listener was closed
\* returns.
FairRelay ==
    /\ WF_vars(DrainCloseStream)
    /\ WF_vars(DrainExit)
    /\ WF_vars(ServeReturn(FALSE))

SpecRelay == InitRelay /\ [][NextRelay]_vars /\ FairRelay

\* ------------------------------------------------------------ listeners
\* The listener wrappers in the order Init applies them to the raw listener.
Wrappers == <<"proxyproto", "metrics", "stats", "admission", "traffic", "climiter">>

WrapInside(stack, w) == <<w>> \o stack

\* ln = X.WrapListener(..., ln, ...): the new listener encloses the old one. A
\* stack lists the wrappers from the one next to the raw listener outwards.
WrapListener(stack, w) == Append(stack, w)

RECURSIVE WrapAll(_, _)
WrapAll(stack, ws) ==
    IF ws = <<>> THEN stack ELSE WrapAll(WrapListener(stack, Head(ws)), Tail(ws))

\* The listener that Init builds: the six wrappers, and for the TLS variant of
\* h2 a tls.NewListener around them.
InitStack(kind, h2c) ==
    LET six == WrapAll(<<>>, Wrappers)
    IN IF kind = "h2" /\ ~h2c THEN WrapListener(six, "tls") ELSE six

Innermost(stack) == stack[1]
Outermost(stack) == stack[Len(stack)]

\* The listeners that queue what they produce for Accept.
Queued == listener.kind \in {"mtcp", "sshd", "h2"}

\* Init(md) of the tcp, mtcp, sshd and h2 listeners: listen, wrap, make the
\* queue and the error channel, start the accept loop or the server.
ListenerInit ==
    /\ listener.kind # "none"
    /\ listener.state = "new"
    /\ listener' = [listener EXCEPT !.state = "running",
                                    !.stack = InitStack(listener.kind, listener.h2c)]
    /\ cqueue' = <<>>
    /\ errChan' = [buf |-> <<>>, closed |-> FALSE]
    /\ lret' = NoAccept
    /\ UNCHANGED <<poolVars, handlerVars, lifeVars, relay, auxVars, produced>>

\* Streams are numbered in the order they arrive.
NextStream(s) == produced[s] = "none" /\ \A d \in LConns : d < s => produced[d] # "none"

QueueNeverFull == FALSE

\* The default case of `select { case l.cqueue <- conn: default: }` is taken.
QueueFull == Len(cqueue) >= Backlog

\* select { case l.cqueue <- conn: default: conn.Close() }
Offer(s) ==
    IF QueueFull
    THEN /\ produced' = [produced EXCEPT ![s] = "closed"]
         /\ cqueue' = cqueue
    ELSE /\ produced' = [produced EXCEPT ![s] = "queued"]
         /\ cqueue' = Append(cqueue, s)

\* mtcpListener.mux, one round of its loop: session.Accept returns stream s,
\* which is queued or closed. The sessions outlive a failed accept loop.
MuxStream(s) ==
    /\ listener.kind = "mtcp"
    /\ listener.state # "new"
    /\ NextStream(s)
    /\ Offer(s)
    /\ lret' = [op |-> "mux", conn |-> s, err |-> "nil"]
    /\ UNCHANGED <<poolVars, handlerVars, lifeVars, relay, auxVars, listener, errChan>>

\* sshdListener.serveConn, the channel goroutine: a direct-tcpip channel is
\* accepted and its connection queued, or rejected and closed.
ServeChannel(s) ==
    /\ listener.kind = "sshd"
    /\ listener.state # "new"
    /\ NextStream(s)
    /\ Offer(s)
    /\ lret' = [op |-> "channel", conn |-> s, err |-> "nil"]
    /\ UNCHANGED <<poolVars, handlerVars, lifeVars, relay, auxVars, listener, errChan>>

\* sshdListener.serveConn, the request goroutine: the connection of a
\* tcpip-forward request is queued, or refused and closed.
ServeRequest(s) ==
    /\ listener.kind = "sshd"
    /\ listener.state # "new"
    /\ NextStream(s)
    /\ Offer(s)
    /\ lret' = [op |-> "request", conn |-> s, err |-> "nil"]
    /\ UNCHANGED <<poolVars, handlerVars, lifeVars, relay, auxVars, listener, errChan>>

\* h2Listener.handleFunc: a request that upgrade refuses gives no connection;
\* otherwise the connection is queued or closed, and the goroutine of this
\* request waits for the connection to be closed.
HandleFunc(s, upgraded) ==
    /\ listener.kind = "h2"
    /\ listener.state = "running"
    /\ NextStream(s)
    /\ IF upgraded THEN Offer(s) ELSE UNCHANGED <<produced, cqueue>>
    /\ lret' = [op |-> "handleFunc", conn |-> IF upgraded THEN s ELSE Nil,
                err |-> IF upgraded THEN "nil" ELSE "ErrUpgrade"]
    /\ UNCHANGED <<poolVars, handlerVars, lifeVars, relay, auxVars, listener, errChan>>

\* Accept of the mtcp, sshd and h2 listeners: the head of the queue, or what
\* the error channel gives (its buffered error, or ErrClosed once closed).
Accept ==
    /\ Queued
    /\ listener.state # "new"
    /\ \/ /\ cqueue # <<>>
          /\ cqueue' = Tail(cqueue)
          /\ produced' = [produced EXCEPT ![Head(cqueue)] = "delivered"]
          /\ errChan' = errChan
          /\ lret' = [op |-> "Accept", conn |-> Head(cqueue), err |-> "nil"]
       \/ /\ errChan.buf # <<>>
          /\ errChan' = [errChan EXCEPT !.buf = <<>>]
          /\ lret' = [op |-> "Accept", conn |-> Nil, err |-> Head(errChan.buf)]
          /\ UNCHANGED <<cqueue, produced>>
       \/ /\ errChan.buf = <<>>
          /\ errChan.closed
          /\ lret' = [op |-> "Accept", conn |-> Nil, err |-> "ErrClosed"]
          /\ UNCHANGED <<cqueue, produced, errChan>>
    /\ UNCHANGED <<poolVars, handlerVars, lifeVars, relay, auxVars, listener>>

\* tcpListener.Accept: the next connection of the wrapped listener, or its error.
TCPAccept(s, ok) ==
    /\ listener.kind = "tcp"
    /\ listener.state = "running"
    /\ NextStream(s)
    /\ produced' = IF ok THEN [produced EXCEPT ![s] = "delivered"] ELSE produced
    /\ lret' = [op |-> "Accept", conn |-> IF ok THEN s ELSE Nil,
                err |-> IF ok THEN "nil" ELSE "ErrAccept"]
    /\ UNCHANGED <<poolVars, handlerVars, lifeVars, relay, auxVars, listener, cqueue, errChan>>

\* The handler of a delivered connection closes it.
ConnClose(s) ==
    /\ produced[s] = "delivered"
    /\ produced' = [produced EXCEPT ![s] = "closed"]
    /\ lret' = [op |-> "close", conn |-> s, err |-> "nil"]
    /\ UNCHANGED <<poolVars, handlerVars, lifeVars, relay, auxVars, listener, cqueue, errChan>>

\* listenLoop of the mtcp and sshd listeners, the error branch: the error of
\* the wrapped listener's Accept is sent, the channel closed, the loop left.
ListenFail ==
    /\ listener.kind \in {"mtcp", "sshd"}
    /\ listener.state = "running"
    /\ listener' = [listener EXCEPT !.state = "failed"]
    /\ errChan' = [buf |-> Append(errChan.buf, "ErrAccept"), closed |-> TRUE]
    /\ lret' = [op |-> "listenLoop", conn |-> Nil, err |-> "ErrAccept"]
    /\ UNCHANGED <<poolVars, handlerVars, lifeVars, relay, auxVars, cqueue, produced>>

\* h2Listener.Close: when the error channel is ready its value is received and
\* nothing else happens; otherwise the server is closed, its result (nil or an
\* error) sent and the channel closed.
H2Close(e) ==
    /\ listener.kind = "h2"
    /\ listener.state # "new"
    /\ IF errChan.buf # <<>>
       THEN /\ errChan' = [errChan EXCEPT !.buf = <<>>]
            /\ listener' = listener
       ELSE IF errChan.closed
       THEN UNCHANGED <<errChan, listener>>
       ELSE /\ errChan' = [buf |-> <<e>>, closed |-> TRUE]
            /\ listener' = [listener EXCEPT !.state = "closed"]
    /\ lret' = [op |-> "Close", conn |-> Nil, err |-> "nil"]
    /\ UNCHANGED <<poolVars, handlerVars, lifeVars, relay, auxVars, cqueue, produced>>

\* --------------------------------------------------------- SpecListener
\* A listener of some kind, built by NewListener and not yet initialised.
InitListener ==
    /\ InitCommon
    /\ sd = FALSE
    /\ tunnels = [t \in TunnelObjs |-> NoTunnel]
    /\ cleanPC = [t \in TunnelObjs |-> "none"]
    /\ NoHandler
    /\ NoLife
    /\ NoRelay
    /\ NoAux
    /\ listener \in {l \in [kind : ListenerKinds, h2c : BOOLEAN, state : {"new"}, stack : {<<>>}] :
                        l.h2c => l.kind = "h2"}
    /\ cqueue = <<>>
    /\ errChan = [buf |-> <<>>, closed |-> FALSE]
    /\ produced = [s \in LConns |-> "none"]
    /\ lret = NoAccept

NextListener ==
    \/ ListenerInit
    \/ \E s \in LConns : MuxStream(s)
    \/ \E s \in LConns : ServeChannel(s)
    \/ \E s \in LConns : ServeRequest(s)
    \/ \E s \in LConns, upgraded \in BOOLEAN : HandleFunc(s, upgraded)
    \/ Accept
    \/ \E s \in LConns, ok \in BOOLEAN : TCPAccept(s, ok)
    \/ \E s \in LConns : ConnClose(s)
    \/ ListenFail
    \/ \E e \in {"nil", "ErrServerClose"} : H2Close(e)

SpecListener == InitListener /\ [][NextListener]_vars

\* ----------------------------------------------------------- tunListener
\* The tun listener keeps its state in the listener variables: listener.state
\* is the position of listenLoop ("create": about to call createTun, "offer":
\* blocked in l.cqueue <- c, "wait": in the select after a conn was handed
\* over, "failed": in the select after cancel(), "done": returned); cqueue,
\* which is unbuffered, holds the conn the blocked send offers; errChan.closed
\* stands for the closed channel l.closed.
TunUnchanged == UNCHANGED <<poolVars, handlerVars, lifeVars, relay, auxVars>>

\* The conn of the current round of listenLoop.
TunCurrent == {s \in LConns : produced[s] # "none" /\ \A d \in LConns : d > s => produced[d] = "none"}

\* <-ctx.Done() is ready: cancel() was called after a failed createTun, or the
\* conn of this round was closed.
TunCtxDone ==
    \/ listener.state = "failed"
    \/ listener.state = "wait" /\ \A s \in TunCurrent : produced[s] = "closed"

\* tunListener.Init: on an error nothing is started; otherwise both channels
\* are made and listenLoop started.
TunInit(ok) ==
    /\ listener.kind = "tun"
    /\ listener.state = "new"
    /\ listener' = [listener EXCEPT !.state = IF ok THEN "create" ELSE "initerr"]
    /\ lret' = [op |-> "Init", conn |-> Nil, err |-> IF ok THEN "nil" ELSE "ErrInit"]
    /\ UNCHANGED <<cqueue, errChan, produced>>
    /\ TunUnchanged

\* listenLoop, createTun: on success the conn is built and the loop blocks
\* sending it on the unbuffered queue; on failure cancel() is called.
TunCreate(s, ok) ==
    /\ listener.kind = "tun"
    /\ listener.state = "create"
    /\ ok => NextStream(s)
    /\ IF ok
       THEN /\ listener' = [listener EXCEPT !.state = "offer"]
            /\ cqueue' = <<s>>
            /\ produced' = [produced EXCEPT ![s] = "queued"]
       ELSE /\ listener' = [listener EXCEPT !.state = "failed"]
            /\ UNCHANGED <<cqueue, produced>>
    /\ lret' = [op |-> "createTun", conn |-> IF ok THEN s ELSE Nil,
                err |-> IF ok THEN "nil" ELSE "ErrCreate"]
    /\ errChan' = errChan
    /\ TunUnchanged

\* tunListener.Accept: receives the conn the loop offers, or returns ErrClosed
\* once l.closed is closed; with both ready either happens, with neither it
\* blocks.
TunAccept ==
    /\ listener.kind = "tun"
    /\ listener.state \notin {"new", "initerr"}
    /\ \/ /\ listener.state = "offer"
          /\ listener' = [listener EXCEPT !.state = "wait"]
          /\ cqueue' = <<>>
          /\ produced' = [produced EXCEPT ![Head(cqueue)] = "delivered"]
          /\ lret' = [op |-> "Accept", conn |-> Head(cqueue), err |-> "nil"]
       \/ /\ errChan.closed
          /\ lret' = [op |-> "Accept", conn |-> Nil, err |-> "ErrClosed"]
          /\ UNCHANGED <<listener, cqueue, produced>>
    /\ errChan' = errChan
    /\ TunUnchanged

\* The handler closes a conn it was given, which cancels the context of the
\* round that built it.
TunConnClose(s) ==
    /\ listener.kind = "tun"
    /\ produced[s] = "delivered"
    /\ produced' = [produced EXCEPT ![s] = "closed"]
    /\ lret' = [op |-> "close", conn |-> s, err |-> "nil"]
    /\ UNCHANGED <<listener, cqueue, errChan>>
    /\ TunUnchanged

\* listenLoop, the select: case <-ctx.Done(), then the sleep and the next round.
TunLoopAgain ==
    /\ listener.kind = "tun"
    /\ TunCtxDone
    /\ listener' = [listener EXCEPT !.state = "create"]
    /\ lret' = [op |-> "listenLoop", conn |-> Nil, err |-> "nil"]
    /\ UNCHANGED <<cqueue, errChan, produced>>
    /\ TunUnchanged

\* listenLoop, the select: case <-l.closed, return.
TunLoopExit ==
    /\ listener.kind = "tun"
    /\ listener.state \in {"wait", "failed"}
    /\ errChan.closed
    /\ listener' = [listener EXCEPT !.state = "done"]
    /\ lret' = [op |-> "listenLoop", conn |-> Nil, err |-> "nil"]
    /\ UNCHANGED <<cqueue, errChan, produced>>
    /\ TunUnchanged

\* tunListener.Close: net.ErrClosed when l.closed is closed already, else it
\* closes l.closed and returns nil.
TunClose ==
    /\ listener.kind = "tun"
    /\ listener.state \notin {"new", "initerr"}
    /\ errChan' = [errChan EXCEPT !.closed = TRUE]
    /\ lret' = [op |-> "Close", conn |-> Nil,
                err |-> IF errChan.closed THEN "net.ErrClosed" ELSE "nil"]
    /\ UNCHANGED <<listener, cqueue, produced>>
    /\ TunUnchanged

\* --------------------------------------------------------------- SpecTun
InitTun ==
    /\ InitCommon
    /\ sd = FALSE
    /\ tunnels = [t \in TunnelObjs |-> NoTunnel]
    /\ cleanPC = [t \in TunnelObjs |-> "none"]
    /\ NoHandler
    /\ NoLife
    /\ NoRelay
    /\ NoAux
    /\ listener = [kind |-> "tun", h2c |-> FALSE, state |-> "new", stack |-> <<>>]
    /\ cqueue = <<>>
    /\ errChan = [buf |-> <<>>, closed |-> FALSE]
    /\ produced = [s \in LConns |-> "none"]
    /\ lret = NoAccept

NextTun ==
    \/ \E ok \in BOOLEAN : TunInit(ok)
    \/ \E s \in LConns, ok \in BOOLEAN : TunCreate(s, ok)
    \/ TunAccept
    \/ \E s \in LConns : TunConnClose(s)
    \/ TunLoopAgain
    \/ TunLoopExit
    \/ TunClose

\* listenLoop is scheduled whenever it can run, and its select, which picks at
\* random among the ready cases, does not pass over a ready case for ever.
\* Accept and Close are calls of the listener's user and need not happen.
FairTun ==
    /\ WF_vars(\E s \in LConns, ok \in BOOLEAN : TunCreate(s, ok))
    /\ WF_vars(TunLoopAgain)
    /\ SF_vars(TunLoopExit)

SpecTun == InitTun /\ [][NextTun]_vars /\ FairTun

\* A producer of the mtcp, sshd or h2 listener takes its next connection.
Produce ==
    \E s \in LConns :
        MuxStream(s) \/ ServeChannel(s) \/ ServeRequest(s) \/ HandleFunc(s, TRUE)

\* The number of places of the queue that hold connection s.
InQueue(s) == Cardinality({i \in 1..Len(cqueue) : cqueue[i] = s})

\* ------------------------------------------------- properties, SpecTunnel
TheList == tunnels[1].connectors

Live(c) == ~IsClosed(c)

Matches(network, c) == IsUDP(c) = (network = "udp")

GotConnector == last.op = "GetConnector"

\* C1: GetConnector never returns a connector whose IsClosed() is true,
\* whatever the network and the length of the list.
C1_NeverReturnsClosed ==
    (GotConnector /\ last.c # Nil) => ~IsClosed(last.c)

\* C2: on a list that does not hold exactly one connector, GetConnector(N)
\* returns nil or a connector of the list that is not closed and whose type
\* matches N.
C2_FilteredSelection ==
    (GotConnector /\ Len(TheList) # 1) =>
        \/ last.c = Nil
        \/ /\ last.c \in Range(TheList)
           /\ ~IsClosed(last.c)
           /\ Matches(last.net, last.c)

\* C2 witness: a connector was returned from a list of two or more that also
\* holds a closed connector and a live connector of the other type.
C2_Witness ==
    /\ GotConnector
    /\ Len(TheList) >= 2
    /\ last.c # Nil
    /\ \E i \in 1..Len(TheList) : IsClosed(TheList[i])
    /\ \E i \in 1..Len(TheList) : Live(TheList[i]) /\ ~Matches(last.net, TheList[i])

\* C3: on a list of two or more connectors, when some live connector matching
\* the network has weight 255, GetConnector returns a connector of weight 255,
\* wherever the weight-255 connectors stand in the list.
C3_MaxWeightOverride ==
    ( /\ GotConnector
      /\ Len(TheList) >= 2
      /\ \E i \in 1..Len(TheList) :
            Live(TheList[i]) /\ Matches(last.net, TheList[i]) /\ Weight(TheList[i]) = MaxWeight )
    => (last.c # Nil /\ Weight(last.c) = MaxWeight)

\* C3 witness: a weight-255 connector was returned although a live matching
\* connector of lower weight stands before it and another one after it.
C3_Witness ==
    /\ GotConnector
    /\ last.c # Nil
    /\ Weight(last.c) = MaxWeight
    /\ \E i, j, k \in 1..Len(TheList) :
          /\ i < j /\ j < k
          /\ TheList[j] = last.c
          /\ Live(TheList[i]) /\ Matches(last.net, TheList[i]) /\ Weight(TheList[i]) < MaxWeight
          /\ Live(TheList[k]) /\ Matches(last.net, TheList[k]) /\ Weight(TheList[k]) < MaxWeight

\* C4: when the list holds exactly one connector, GetConnector returns that
\* connector for every network, closed or not, matching or not.
C4_FastPath ==
    (GotConnector /\ Len(TheList) = 1) => last.c = TheList[1]

\* C4 witness: the sole connector was returned although it is closed and of
\* the other type.
C4_Witness ==
    /\ GotConnector
    /\ Len(TheList) = 1
    /\ last.c = TheList[1]
    /\ IsClosed(last.c)
    /\ ~Matches(last.net, last.c)

\* C6: the connector list never holds the same connector twice.
C6_NoDuplicates ==
    \A i, j \in 1..Len(TheList) : i # j => TheList[i] # TheList[j]

\* C7: the first Tunnel.Close closes every connector of the list and the close
\* channel; a Close on a tunnel already closed (by Close or by CloseOnIdle)
\* closes nothing and changes nothing; no Close panics.
C7_CloseIdempotent ==
    [][ last'.op = "TunnelClose" =>
          /\ panicked' = panicked
          /\ tunnels'[1].closed
          /\ IF tunnels[1].closed
             THEN session' = session /\ tunnels' = tunnels
             ELSE /\ \A c \in Range(TheList) : session'[c] = "closed"
                  /\ tunnels'[1].connectors = TheList ]_vars

\* C7 witness: Close was called on a closed tunnel whose list holds a live
\* connector, and that connector is still live.
C7_Witness ==
    /\ last.op = "TunnelClose"
    /\ last.res = 0
    /\ \E i \in 1..Len(TheList) : Live(TheList[i])

\* The live connectors of the list cs whose type matches network.
LiveMatching(cs, network) ==
    {c \in Range(cs) : ~IsClosed(c) /\ ((network = "udp") <=> IsUDP(c))}

\* C27: on a list of two or more connectors without a live matching connector
\* of weight 255, what GetConnector(N) can return is exactly the live
\* connectors whose type matches N, those of weight 0 included, and nil only
\* when there is none; and what it returns is one of them.
C27_ExactlyLiveMatching ==
    LET cs == tunnels[1].connectors IN
    \A n \in Networks :
        (Len(cs) >= 2 /\ \A c \in LiveMatching(cs, n) : Weight(c) # MaxWeight) =>
            /\ GetConnectorResults(cs, n) =
                  IF LiveMatching(cs, n) = {} THEN {Nil} ELSE LiveMatching(cs, n)
            /\ (last.op = "GetConnector" /\ last.net = n) =>
                  last.c \in LiveMatching(cs, n) \cup {Nil}

\* GetConnector has just returned a connector of weight 0 from a list that
\* holds another live connector of the same type.
C27_Witness ==
    /\ last.op = "GetConnector"
    /\ last.c # Nil
    /\ Weight(last.c) = 0
    /\ Len(tunnels[1].connectors) >= 2
    /\ \E d \in LiveMatching(tunnels[1].connectors, last.net) : d # last.c
    /\ \A d \in LiveMatching(tunnels[1].connectors, last.net) : Weight(d) # MaxWeight

\* C28: a CloseOnIdle call that returns true found the tunnel open with an
\* empty list and closed it, without a panic; a call that returns false found
\* the tunnel closed or its list not empty and changed nothing.
C28_CloseOnIdleExact ==
    [][ last'.op = "CloseOnIdle" =>
          IF last'.res = 1
          THEN /\ ~tunnels[last'.t].closed
               /\ Len(tunnels[last'.t].connectors) = 0
               /\ tunnels'[last'.t].closed
               /\ ~panicked'
          ELSE /\ ~IdleCheck(last'.t)
               /\ UNCHANGED <<tunnels, connectors, session, cleanPC, panicked>> ]_vars

\* C37: the close channel of a tunnel is closed at most once under every
\* interleaving of Tunnel.Close and Tunnel.CloseOnIdle calls: no execution
\* reaches the panic of closing a closed channel.
C37_NoDoubleClose == ~panicked

\* ------------------------------------------------------- properties, Spec
\* Connector c stands in the list of the tunnel that the map pl holds under tid.
InPoolOf(pl, tn, tid, c) == pl[tid] # Nil /\ c \in Range(tn[pl[tid]].connectors)

\* C5: with SD configured, once the transport of a connector registered in the
\* pool has closed,
\* Get stops returning it when the reaper has dropped it, and SD receives
\* exactly one Deregister call with its id, counting the calls of the
\* accept-drain loop and of the reaper.
C5_ExactlyOneDeregister ==
    \A c \in Conns :
        (sd /\ c \in diedInPool) =>
            /\ sdDereg[c] <= 1
            /\ (acceptPC[c] = "done" /\ ~InPoolOf(pool, tunnels, connectors[c].tid, c))
                  => sdDereg[c] = 1
            /\ (last.op = "Get" /\ last.c = c) => InPoolOf(pool, tunnels, last.t, c)

\* C8: ConnectorPool.Close leaves the map empty, every tunnel that was in it
\* closed and every registered connector closed; a Get that follows returns nil.
C8_PoolCloseClosesAll ==
    [][ /\ last'.op = "PoolClose" =>
              /\ \A k \in Tids : pool'[k] = Nil
              /\ \A k \in PoolKeys : tunnels'[pool[k]].closed
              /\ \A c \in registered : session'[c] = "closed"
        /\ (last.op = "PoolClose" /\ last'.op = "Get") => last'.c = Nil ]_vars

\* C8 witness: Close emptied a map of two tunnels and every connector, each
\* registered, is closed while its accept loop has not yet noticed.
C8_Witness ==
    /\ last.op = "PoolClose"
    /\ last.res >= 2
    /\ PoolKeys = {}
    /\ \A c \in PoolConns : c \in registered /\ IsClosed(c) /\ acceptPC[c] = "run"

\* C9: Get changes neither the map nor any tunnel, and for a tid with no entry
\* it returns nil.
C9_GetChangesNothing ==
    [][ last'.op = "Get" =>
          /\ pool' = pool
          /\ tunnels' = tunnels
          /\ pool[last'.t] = Nil => last'.c = Nil ]_vars

\* C9 witness: Get returned nil for a tid with no entry while another tid has
\* one and a tunnel could still have been built.
C9_Witness ==
    /\ last.op = "Get"
    /\ pool[last.t] = Nil
    /\ last.c = Nil
    /\ PoolKeys # {}
    /\ FreeTunnels # {}

\* C10: under every interleaving of Add calls, a connector whose Add returned is
\* in the list of the tunnel stored under its tid and stays there while it is
\* open, and every open tunnel that was built is the one stored under its tid.
C10_NoLostAdd ==
    [][ /\ last'.op = "Add" => InPoolOf(pool', tunnels', last'.t, last'.c)
        /\ \A k \in Tids, c \in Conns :
              (InPoolOf(pool, tunnels, k, c) /\ session'[c] = "open")
                  => InPoolOf(pool', tunnels', k, c)
        /\ \A t \in TunnelObjs :
              (tunnels'[t].alloc /\ ~tunnels'[t].closed) => pool'[tunnels'[t].id] = t ]_vars

\* C10 witness: an Add has just returned and the tunnel of its tid holds two
\* connectors, both open.
C10_Witness ==
    /\ last.op = "Add"
    /\ pool[last.t] # Nil
    /\ Len(tunnels[pool[last.t]].connectors) = 2
    /\ \A c \in PoolConns : InPoolOf(pool, tunnels, last.t, c) /\ ~IsClosed(c)

\* The list of the tunnel under key k is not empty and every connector in it
\* closed while it was listed: the last live connector of the tunnel has closed
\* and none has been added since.
AllClosed(k) ==
    /\ pool[k] # Nil
    /\ tunnels[pool[k]].connectors # <<>>
    /\ \A c \in Range(tunnels[pool[k]].connectors) : IsClosed(c) /\ c \in diedInPool

\* C11: once the last live connector of a tunnel has closed and no connector
\* has been added, the first idle-sweeper pass that runs removes the tunnel
\* from the map, whether or not a reaper tick came before the pass.
C11_SweptByFirstPass ==
    [][ last'.op = "closeIdles" =>
          \A k \in Tids : AllClosed(k) => pool'[k] = Nil ]_vars

\* C26: every tunnel stored in the pool's map has an open close channel, and
\* its reaper is running.
C26_NoClosedTunnelInPool ==
    \A k \in Tids :
        pool[k] # Nil =>
            /\ tunnels[pool[k]].alloc
            /\ ~tunnels[pool[k]].closed
            /\ cleanPC[pool[k]] = "run"

\* The sweeper has just closed and deleted an idle tunnel while the map keeps
\* another tunnel.
C26_Witness ==
    /\ last.op = "closeIdles"
    /\ last.res >= 1
    /\ \E k \in Tids : pool[k] # Nil
    /\ \E t \in TunnelObjs : tunnels[t].closed

\* The calls among calls that are the SD call kind for connector c.
CallCount(calls, kind, c) ==
    Cardinality({i \in 1..Len(calls) : calls[i] = SDCall(kind, c)})

\* Sequence new holds entries of old in the order they have in old.
InOrderOf(new, old) ==
    \A i, j \in 1..Len(new) :
        i < j => \E a, b \in 1..Len(old) : a < b /\ old[a] = new[i] /\ old[b] = new[j]

\* C29: a reaper tick on a non-empty list leaves exactly the connectors that
\* are not closed, in their old order; with SD it calls Deregister once for each
\* connector it removes and Renew once for each it keeps, and nothing else;
\* without SD, and on an empty list, it makes no SD call, and on an empty list
\* it changes nothing.
C29_ReaperTick ==
    [][ last'.op = "clean" =>
          LET old == tunnels[last'.t].connectors
              new == tunnels'[last'.t].connectors
              calls == last'.calls
          IN /\ Range(new) = {c \in Range(old) : ~IsClosed(c)}
             /\ Len(new) = Cardinality({i \in 1..Len(old) : ~IsClosed(old[i])})
             /\ InOrderOf(new, old)
             /\ \A t \in TunnelObjs : t # last'.t => tunnels'[t] = tunnels[t]
             /\ tunnels'[last'.t].closed = tunnels[last'.t].closed
             /\ IF sd
                THEN /\ Len(calls) = Len(old)
                     /\ \A c \in Range(old) :
                           /\ CallCount(calls, "Deregister", c) = IF IsClosed(c) THEN 1 ELSE 0
                           /\ CallCount(calls, "Renew", c) = IF IsClosed(c) THEN 0 ELSE 1
                ELSE calls = <<>>
             /\ old = <<>> => (calls = <<>> /\ tunnels' = tunnels /\ sdDereg' = sdDereg) ]_vars

\* With SD configured, a reaper tick has just removed a closed connector,
\* deregistering it, and kept and renewed a live one.
C29_Witness ==
    /\ sd
    /\ last.op = "clean"
    /\ \E c, d \in Conns :
          /\ CallCount(last.calls, "Deregister", c) = 1
          /\ CallCount(last.calls, "Renew", d) = 1
          /\ tunnels[last.t].connectors = <<d>>

\* ------------------------------------------------ properties, SpecHandler
\* The tunnel handler's Handle has returned on a request it had read.
TunnelReturned == hret.h = "tunnel" /\ hret.path # "pending" /\ hret.req # NoRequest

\* The authenticator, if any, accepts the user of the request just handled.
Authenticated == hopts.auther => Authenticate(hret.req.user)

\* C12: for every request with the correct version, whatever its command and
\* its tunnel ID, when the configured authenticator rejects its user the
\* handler writes Unauthorized, returns ErrUnauthorized, closes the
\* connection and leaves the pool unchanged.
C12_AuthRejectAnswered ==
    [][ ( /\ hret'.h = "tunnel"
          /\ hret'.req.version = Version1
          /\ hopts.auther
          /\ ~Authenticate(hret'.req.user) )
        => /\ hret'.resp = <<"Unauthorized">>
           /\ hret'.err = "ErrUnauthorized"
           /\ hret'.closed
           /\ <<connectors, registered, tunnels, pool>>' = <<connectors, registered, tunnels, pool>>
      ]_vars

\* C13: a BIND request of the correct version whose tunnel ID is zero (no Tunnel
\* feature, or the all-zero ID) is answered BadRequest, Handle returns
\* ErrTunnelID, the connection is closed, and the step adds no connector and
\* changes neither the map nor any tunnel.
C13_ZeroTunnelBind ==
    [][ ( /\ hret'.h = "tunnel"
          /\ hret'.req.version = Version1
          /\ hret'.req.cmd \in {CmdBind, CmdBind + FlagBit}
          /\ hret'.req.tid = Nil )
        => /\ hret'.resp = <<"BadRequest">>
           /\ hret'.err = "ErrTunnelID"
           /\ hret'.closed
           /\ hret'.auth = 0
           /\ <<connectors, registered, tunnels, pool>>' = <<connectors, registered, tunnels, pool>>
      ]_vars

\* C13 witness: a BIND carrying the all-zero ID and a user the authenticator
\* accepts was refused for its tunnel ID while the pool holds a connector.
C13_Witness ==
    /\ TunnelReturned
    /\ hret.path = "tunnelid"
    /\ hret.req.cmd = CmdBind
    /\ hret.req.tunnel
    /\ hopts.auther /\ Authenticate(hret.req.user)
    /\ registered # {}

\* C14: a CONNECT request (correct version, accepted by the authenticator)
\* reaches the CONNECT branch whether its tunnel ID is zero or not: with a
\* non-zero ID it is served from the pool, with a zero or absent ID as a
\* direct CONNECT; it is not rejected before the dispatch.
C14_ConnectDispatch ==
    ( /\ TunnelReturned
      /\ hret.req.version = Version1
      /\ hret.req.cmd \in {CmdConnect, CmdConnect + FlagBit}
      /\ Authenticated )
    => hret.path = "connect"

\* C15: a request whose version is not Version1 is answered BadRequest and
\* Handle returns ErrBadVersion; the authenticator is not called, no command
\* is dispatched and the pool is unchanged.
C15_BadVersion ==
    [][ (hret'.h = "tunnel" /\ hret'.req.version \in Versions \ {Version1})
        => /\ hret'.path = "version"
           /\ hret'.resp = <<"BadRequest">>
           /\ hret'.err = "ErrBadVersion"
           /\ hret'.auth = 0
           /\ <<connectors, registered, tunnels, pool>>' = <<connectors, registered, tunnels, pool>>
      ]_vars

\* C15 witness: a bad-version BIND with a tunnel ID, from a user the
\* authenticator would reject, was refused for its version while the pool
\* holds a connector.
C15_Witness ==
    /\ TunnelReturned
    /\ hret.path = "version"
    /\ hret.req.cmd = CmdBind
    /\ hret.req.tid # Nil
    /\ hopts.auther /\ ~Authenticate(hret.req.user)
    /\ registered # {}

\* C16: a request of the correct version with a non-zero tunnel ID, accepted by
\* the authenticator, whose command without its flag bits is neither CONNECT
\* nor BIND is answered BadRequest, Handle returns ErrUnknownCmd and the
\* connection is closed; a command with a flag bit set takes the branch of the
\* same command without it.
C16_UnknownCmd ==
    ( /\ hret.h = "tunnel"
      /\ hret.req.version = Version1
      /\ hret.req.tid # Nil
      /\ Authenticated )
    => LET low == IF hret.req.cmd >= FlagBit THEN hret.req.cmd - FlagBit ELSE hret.req.cmd
       IN /\ low = CmdConnect => hret.path = "connect"
          /\ low = CmdBind => hret.path \in {"bind", "pending"}
          /\ low \notin {CmdConnect, CmdBind} =>
                /\ hret.path = "unknown"
                /\ hret.resp = <<"BadRequest">>
                /\ hret.err = "ErrUnknownCmd"
                /\ hret.closed

\* C16 witness: an unknown command carrying a flag bit was refused after
\* the authenticator had accepted its user.
C16_Witness ==
    /\ TunnelReturned
    /\ hret.path = "unknown"
    /\ hret.req.cmd = CmdOther + FlagBit
    /\ hopts.auther
    /\ hret.auth = 1

\* C17: when the limiter of the remote host denies, Handle returns
\* ErrRateLimit and the connection is closed without a request byte read, a
\* response written, the authenticator called or the pool touched; without a
\* rate limiter, or without a limiter for the host, the connection is admitted.
C17_RateLimit ==
    [][ hret'.h = "tunnel" =>
          /\ (hopts.rateLimiter = "host" /\ ~hret'.allow) =>
                /\ hret'.path = "ratelimit"
                /\ hret'.err = "ErrRateLimit"
                /\ hret'.closed
                /\ ~hret'.read
                /\ hret'.resp = <<>>
                /\ hret'.auth = 0
                /\ <<connectors, registered, tunnels, pool>>'
                      = <<connectors, registered, tunnels, pool>>
          /\ (hopts.rateLimiter \in {"none", "nohost"} \/ hret'.allow) =>
                hret'.path # "ratelimit" ]_vars

\* C17 witness: a connection was denied by the limiter of its host although
\* an authenticator is configured and the pool holds a connector.
C17_Witness ==
    /\ hret.h = "tunnel"
    /\ hret.path = "ratelimit"
    /\ ~hret.allow
    /\ hopts.auther
    /\ registered # {}

\* C18: whenever Handle of the tunnel, socks4, socks5 or http2 handler has
\* returned, the connection it was given is closed, on every exit path.
C18_ClosedOnReturn ==
    (hret.h # "none" /\ hret.path # "pending") => hret.closed

\* ------------------------------------------------ properties, SpecListener
\* C19: in the mtcp, sshd and h2 listeners the queue never holds more than
\* Backlog connections; a connection produced while it holds Backlog is closed
\* and not queued, any other is appended; a producer with a connection to offer
\* can always take its step, whatever the queue holds; and every produced
\* connection is in the queue exactly once, delivered by Accept, or closed.
C19_BacklogDrop ==
    [][ Queued =>
          /\ Len(cqueue') <= Backlog
          /\ \A s \in LConns :
                /\ produced'[s] = "queued" <=> InQueue(s)' = 1
                /\ produced'[s] # "queued" => InQueue(s)' = 0
                /\ produced'[s] = "delivered" /\ produced[s] # "delivered" =>
                      lret' = [op |-> "Accept", conn |-> s, err |-> "nil"]
                /\ produced[s] = "none" /\ produced'[s] # "none" =>
                      IF Len(cqueue) >= Backlog
                      THEN produced'[s] = "closed" /\ cqueue' = cqueue
                      ELSE produced'[s] = "queued" /\ cqueue' = Append(cqueue, s)
          /\ (listener.state = "running" /\ \E s \in LConns : NextStream(s)) =>
                ENABLED Produce
      ]_vars

\* A connection was produced while the queue held Backlog connections and was
\* closed, and after an Accept a later one has been queued.
C19_Witness ==
    /\ Queued
    /\ \E s, d \in LConns :
          /\ s < d
          /\ produced[s] = "closed"
          /\ \A e \in LConns : e < s => produced[e] \in {"queued", "delivered"}
          /\ produced[d] = "queued"
          /\ Len(cqueue) = Backlog
          /\ lret.op \in {"mux", "channel", "request", "handleFunc"}
          /\ lret.conn = d

\* C20 as stated: the tcp, mtcp, sshd and h2 listeners build the same stack, the
\* proxy-protocol decoder outermost and the connection limiter innermost, with
\* metrics, stats, admission and traffic limiter between them in that order.
C20_ProxyProtoOutermost ==
    listener.state # "new" =>
        /\ Outermost(listener.stack) = "proxyproto"
        /\ Innermost(listener.stack) = "climiter"
        /\ Len(listener.stack) = Len(Wrappers)
        /\ \A i \in 1..Len(Wrappers) :
              listener.stack[Len(Wrappers) + 1 - i] = Wrappers[i]

\* C20 amended: the four listeners build the same six wrappers in the same
\* order, but the proxy-protocol decoder is the innermost, next to the raw
\* listener, and the connection limiter the outermost of the six, with metrics,
\* stats, admission and traffic limiter between them from the inside outwards;
\* the TLS variant of h2 puts a TLS listener around them.
C20_ProxyProtoInnermost ==
    listener.state # "new" =>
        /\ Innermost(listener.stack) = "proxyproto"
        /\ listener.stack[Len(Wrappers)] = "climiter"
        /\ SubSeq(listener.stack, 1, Len(Wrappers)) =
              <<"proxyproto", "metrics", "stats", "admission", "traffic", "climiter">>
        /\ IF listener.kind = "h2" /\ ~listener.h2c
           THEN listener.stack[Len(listener.stack)] = "tls"
                /\ Len(listener.stack) = Len(Wrappers) + 1
           ELSE Outermost(listener.stack) = "climiter"
                /\ Len(listener.stack) = Len(Wrappers)

\* An initialised mtcp listener has delivered a connection through its stack.
C20_Witness ==
    /\ listener.kind = "mtcp"
    /\ listener.state = "running"
    /\ Len(listener.stack) = Len(Wrappers)
    /\ lret.op = "Accept"
    /\ lret.conn # Nil


\* C39: Accept returns a connection with a nil error or no connection with a
\* non-nil error, never neither; in particular an Accept that returns after
\* the listener was closed or its accept loop failed returns a non-nil error
\* when it returns no connection.
C39_AcceptNeverNilNil ==
    lret.op = "Accept" => ((lret.conn = Nil) <=> (lret.err # "nil"))

\* ---------------------------------------------------- properties, SpecLife
\* C21: in each of the four handlers, once Close has been called a running
\* observer task terminates; a terminated observer stays terminated and makes
\* no Observe call; and every Close, also on a handler whose Init started no
\* task or that was closed before, returns nil without a panic.
C21_ObserverStops ==
    /\ (hlife.closed /\ observePC = "run") ~> (observePC = "done")
    /\ [][ observePC = "done" =>
              /\ observePC' = "done"
              /\ lifeRet' # lifeRet => lifeRet'.op # "Observe" ]_vars
    /\ [][ (lifeRet' # lifeRet /\ lifeRet'.op = "Close") =>
              /\ lifeRet'.err = "nil"
              /\ ~panicked'
              /\ hlife'.closed
              /\ observePC' = observePC ]_vars

\* The handler has been closed a second time, after its observer had seen the
\* cancellation of the first Close and terminated.
C21_Witness ==
    /\ observePC = "done"
    /\ lifeRet.op = "Close"
    /\ lifeRet.again
    /\ lifeRet.cancelled

\* C24: a connector that is closed, by Connector.Close or because its peer
\* went away, is closed ever after, whatever is called on it; its accept-drain
\* task is started once, when the connector is built, is never started again,
\* and terminates once the session is closed.
C24_ClosedForGood ==
    /\ [][ \A c \in Conns :
              /\ (connectors[c].created /\ IsClosed(c)) => IsClosed(c)'
              /\ acceptPC[c] = "done" => acceptPC'[c] = "done"
              /\ (acceptPC'[c] = "run" /\ acceptPC[c] # "run") =>
                    (~connectors[c].created /\ connectors'[c].created)
              /\ connectors'[c].created => acceptPC'[c] # "none" ]_vars
    /\ \A c \in Conns : (connectors[c].created /\ IsClosed(c)) ~> (acceptPC[c] = "done")

\* One connector's peer went away and another was closed locally; the
\* accept-drain tasks of both have terminated.
C24_Witness ==
    \E c, d \in Conns :
        /\ c \in diedInPool
        /\ d \notin diedInPool
        /\ session[c] = "closed" /\ session[d] = "closed"
        /\ acceptPC[c] = "done" /\ acceptPC[d] = "done"

\* C22: after tunnelHandler.Close the pool's idle sweeper, every tunnel's
\* reaper and every connector's accept-drain loop eventually terminate.
C22_TasksExit ==
    (hopts.kind = "tunnel" /\ hlife.closed) ~>
        /\ sweepPC # "run"
        /\ \A t \in TunnelObjs : cleanPC[t] # "run"
        /\ \A c \in Conns : acceptPC[c] # "run"

\* C30: the reaper of a closed tunnel terminates, whether ConnectorPool.Close
\* (Tunnel.Close) or the sweeper (CloseOnIdle) closed it; a terminated reaper
\* stays terminated, no later step is a tick of it, and the tunnel's list is
\* not changed any more.
C30_ReaperExits ==
    /\ \A t \in TunnelObjs :
          (tunnels[t].alloc /\ tunnels[t].closed) ~> (cleanPC[t] = "done")
    /\ [][ \A t \in TunnelObjs :
              cleanPC[t] = "done" =>
                 /\ cleanPC'[t] = "done"
                 /\ ~Clean(t)
                 /\ tunnels'[t] = tunnels[t]
                 /\ sdDereg' = sdDereg ]_vars

\* Two tunnels are closed and their reapers have returned. The one that still
\* lists a connector was closed by Tunnel.Close, since CloseOnIdle closes only a
\* tunnel with an empty list; the pool held one tunnel when it was closed, so
\* the sweeper closed the other.
C30_Witness ==
    /\ hlife.closed
    /\ \E t, u \in TunnelObjs :
          /\ t # u
          /\ tunnels[t].alloc /\ tunnels[t].closed /\ cleanPC[t] = "done"
          /\ tunnels[u].alloc /\ tunnels[u].closed /\ cleanPC[u] = "done"
          /\ tunnels[t].connectors # <<>>
          /\ tunnels[u].connectors = <<>>

\* -------------------------------------------------- properties, SpecAccept
\* C31: the accept loop of a connector does nothing with a stream of the peer
\* but close it, and accepts the next only then; when Accept fails the loop
\* ends with the session closed, having called Deregister with the
\* connector's id once if SD is configured and not at all otherwise; a loop
\* that has ended accepts nothing and calls nothing any more.
C31_AcceptDrain ==
    /\ [][ \A c \in Conns :
              /\ peerStreams[c].hand =>
                    \/ peerStreams'[c] = peerStreams[c]
                    \/ peerStreams'[c] = [hand |-> FALSE, drained |-> peerStreams[c].drained + 1]
              /\ ~peerStreams[c].hand => peerStreams'[c].drained = peerStreams[c].drained
              /\ (acceptPC[c] = "run" /\ acceptPC'[c] = "done") =>
                    /\ session'[c] = "closed"
                    /\ ~peerStreams[c].hand
                    /\ last'.calls = IF sd THEN <<SDCall("Deregister", c)>> ELSE <<>>
                    /\ sdDereg'[c] = sdDereg[c] + (IF sd THEN 1 ELSE 0)
              /\ acceptPC[c] = "done" =>
                    /\ acceptPC'[c] = "done"
                    /\ sdDereg'[c] = sdDereg[c]
                    /\ peerStreams'[c] = peerStreams[c] ]_vars
    /\ [](\A c \in Conns : acceptPC[c] = "done" => sdDereg[c] = IF sd THEN 1 ELSE 0)
    /\ [](\A c \in Conns : acceptPC[c] # "done" => sdDereg[c] = 0)

\* With SD configured, a connector's loop has closed every stream its peer
\* opened, seen Accept fail, deregistered the connector and ended.
C31_Witness ==
    /\ sd
    /\ \E c \in Conns :
          /\ acceptPC[c] = "done"
          /\ session[c] = "closed"
          /\ peerStreams[c] = [hand |-> FALSE, drained |-> MaxDrained]
          /\ sdDereg[c] = 1

\* ----------------------------------------------------- properties, SpecTun
\* C40: after tunListener.Close the listen loop eventually returns, whatever
\* it was doing; an Accept that is given no conn returns ErrClosed; and a
\* Close of a closed listener returns net.ErrClosed.
C40_LoopExitsAfterClose ==
    /\ (errChan.closed /\ listener.state # "done") ~> (listener.state = "done")
    /\ [](lret.op = "Accept" => (lret.conn = Nil <=> lret.err = "ErrClosed"))
    /\ [][ (errChan.closed /\ lret'.op = "Close" /\ lret' # lret) =>
              (lret'.err = "net.ErrClosed" /\ errChan' = errChan) ]_vars

\* --------------------------------------------------- properties, SpecRelay
\* C23: when the relay handler's BIND, on tcp or udp, fails to listen on the
\* requested address, it has written ServiceUnavailable (or NetUnreachable) and
\* no OK by the time it returns the error.
C23_ListenFailAnswered ==
    (relay.pc = "returned" /\ relay.err = "ErrListen") =>
        /\ \E i \in 1..Len(relay.resp) :
              relay.resp[i].status \in {"ServiceUnavailable", "NetUnreachable"}
        /\ \A i \in 1..Len(relay.resp) : relay.resp[i].status # "OK"


\* C35: in the relay handler's TCP BIND the mux session exists only after the
\* OK response was written without error; the drain goroutine does nothing
\* with a stream of the peer but close it; once it has seen Accept fail the
\* endpoint service is closed and bindTCP eventually returns; and when
\* bindTCP has returned, the bound listener and the session are closed.
C35_BindTCPOrder ==
    /\ [][ (relay'.session = "open" /\ relay.session # "open") =>
              /\ relay.resp # <<>>
              /\ relay.resp[Len(relay.resp)] = [status |-> "OK", ok |-> TRUE]
              /\ relay'.resp = relay.resp ]_vars
    /\ [][ (relay.drain = "got" /\ relay'.drain # "got") =>
              (relay'.drain = "run" /\ relay'.drained = relay.drained + 1) ]_vars
    /\ [](relay.drain = "done" => relay.srv = "closed")
    /\ (relay.network = "tcp" /\ relay.drain = "done") ~> (relay.pc = "returned")
    /\ []((relay.network = "tcp" /\ relay.pc = "returned") =>
             (relay.ln # "open" /\ relay.session # "open"))

\* A TCP BIND was served to its end: the peer opened streams, which were
\* closed, then went away; the service was closed and bindTCP returned nil
\* with listener and session closed.
C35_Witness ==
    /\ relay.network = "tcp"
    /\ relay.pc = "returned"
    /\ relay.err = "nil"
    /\ relay.drain = "done"
    /\ relay.drained = MaxDrained
    /\ relay.srv = "closed"
    /\ relay.ln = "closed"
    /\ relay.session = "closed"

\* ---------------------------------------------- properties, SpecConnect
Did(c, what) == \E k \in 1..Len(c.ev) : c.ev[k].e = what

\* C32: in the tunnel, socks4 and socks5 handlers a read deadline is set only
\* on the way into the handshake read and only when a read timeout is
\* configured; a call that has reached the command switch or the splice has no
\* deadline; a deadline still in place belongs to a call that is reading or
\* that has returned with its conn closed.
C32_DeadlineAroundRead ==
    /\ [](\A i \in Invs :
            /\ call[i].deadline =>
                 /\ copts.readTimeout
                 /\ hopts.kind \in {"tunnel", "socks4", "socks5"}
                 /\ call[i].pc = "read" \/ (call[i].pc = "returned" /\ call[i].closed)
            /\ (Did(call[i], "dispatch") \/ Did(call[i], "splice")
                  \/ call[i].pc \in {"connect", "sub", "reply", "splice"}) => ~call[i].deadline)
    /\ [][\A i \in Invs : (~call[i].deadline /\ call'[i].deadline) =>
            call[i].pc = "idle" /\ call'[i].pc = "read"]_vars

C32_Witness ==
    /\ copts.readTimeout
    /\ \E i \in Invs : call[i].pc = "splice" /\ ~call[i].deadline
    /\ \E i \in Invs : call[i].pc = "returned" /\ call[i].deadline /\ call[i].closed

\* The number of replies with the given status among what a call did.
Replies(c, status) == Cardinality({k \in 1..Len(c.ev) : c.ev[k].e = "reply" /\ c.ev[k].status = status})

\* C34: in the socks4 and socks5 CONNECT paths a success reply comes after a
\* dial that succeeded, the splice comes right after a success reply that was
\* written without error, a failed dial is answered with exactly one failure
\* reply and no success reply, and an upstream conn that was dialled is closed
\* when the call has returned.
C34_DialReplySplice ==
    hopts.kind \in {"socks4", "socks5"} =>
      \A i \in Invs :
        LET c == call[i]
            granted == StatusOf(hopts.kind, "ok")
            failed == StatusOf(hopts.kind, "dial")
        IN /\ \A k \in 1..Len(c.ev) :
                /\ (c.ev[k].e = "reply" /\ c.ev[k].status = granted) =>
                     k > 1 /\ c.ev[k - 1].e = "dial" /\ c.cc # "none"
                /\ c.ev[k].e = "splice" => k > 1 /\ c.ev[k - 1] = Reply(granted, TRUE)
                /\ c.ev[k].e = "dial" => \A j \in 1..(k - 1) : c.ev[j].e = "dispatch"
           /\ (Did(c, "dial") /\ c.cc = "none") =>
                c.pc = "returned" /\ Replies(c, failed) = 1 /\ Replies(c, granted) = 0
                  /\ ~Did(c, "splice")
           /\ c.cc = "open" => c.pc \in {"reply", "splice"}
           /\ c.pc = "returned" => c.cc # "open"

C34_Witness ==
    /\ hopts.kind = "socks5"
    /\ \E i \in Invs : call[i].pc = "returned" /\ Did(call[i], "splice") /\ call[i].cc = "closed"
    /\ \E i \in Invs : call[i].pc = "returned" /\ Did(call[i], "dial") /\ call[i].cc = "none"

\* The replies that refuse a request.
Rejections ==
    {"RejectedUserid", "Rejected", "AuthFailure", "NotAllowed", "ProxyAuthRequired", "Forbidden",
     "ServiceUnavailable"}

\* The call was for a user the configured authenticator refuses.
AuthFailed(c) == hopts.auther /\ c.user # "none" /\ ~Authenticate(c.user)

LastEv(c) == c.ev[Len(c.ev)]

Splicing == {i \in Invs : call[i].pc = "splice"}

\* C36: with a stats observer configured, the current-connections gauge is the
\* number of calls that are splicing, it is back at its initial value when
\* every call has returned, a step raises it by one only into the splice
\* (after the dial and the success reply) and lowers it by one only on the
\* return of a call that is splicing, and total-connections never decreases.
C36_GaugeCountsSplicing ==
    /\ [](copts.observer => gauge.cur = Cardinality(Splicing))
    /\ [][/\ gauge'.total >= gauge.total
          /\ gauge'.cur > gauge.cur =>
               \E i \in Invs : /\ call[i].pc = "reply" /\ call'[i].pc = "splice"
                               /\ gauge'.cur = gauge.cur + 1 /\ gauge'.total = gauge.total + 1
          /\ gauge'.cur < gauge.cur =>
               \E i \in Invs : /\ call[i].pc = "splice" /\ call'[i].pc = "returned"
                               /\ gauge'.cur = gauge.cur - 1]_vars

\* ------------------------------------------------ properties, SpecLocks
\* The lock call a task is at.
AtIns(k) == Program(lk.task[k].op, lk.task[k].t)[lk.task[k].at]

Busy(k) == lk.task[k].op # "idle"

Blocked(k) == Busy(k) /\ ~CanDo(k, AtIns(k))

\* The tasks that hold the lock or have announced a write on it.
Holders(l) == (l.r \cup {l.w, l.pending}) \ {Nil}

HoldsTunnel(k) == \E t \in TunnelObjs : k \in Holders(lk.tun[t])

\* C38: the pool and tunnel locks are deadlock-free. No two tasks wait on each
\* other's locks, and some busy task can always go on; a task that holds or
\* has asked for a tunnel lock is never about to take the pool lock, and a
\* reaper never touches the pool lock; every started operation completes.
C38_LocksDeadlockFree ==
    /\ [](/\ \A j, k \in Tasks :
               ~(/\ j # k /\ Blocked(j) /\ Blocked(k)
                 /\ k \in Holders(LockOf(AtIns(j))) /\ j \in Holders(LockOf(AtIns(k))))
          /\ (\E k \in Tasks : Busy(k)) => \E k \in Tasks : Busy(k) /\ ~Blocked(k)
          /\ \A k \in Tasks :
               /\ (Busy(k) /\ HoldsTunnel(k)) => AtIns(k).a \in {"Acquire", "Unlock", "RUnlock"}
                                                  /\ ~AtIns(k).pool
               /\ (Busy(k) /\ lk.task[k].op \in {"clean", "accept"}) => ~AtIns(k).pool
                                                                         /\ k \notin Holders(lk.pool))
    /\ \A k \in Tasks : Busy(k) ~> ~Busy(k)

C38_Witness ==
    \E j, k \in Tasks, t \in TunnelObjs :
        /\ lk.task[j].op = "Add" /\ lk.pool.w = j /\ Blocked(j)
        /\ lk.task[k].op = "clean" /\ lk.tun[t].w = k
        /\ \E i \in Tasks : lk.task[i].op = "Get" /\ Blocked(i)

====
